---- MODULE Spec2Model ----
(***************************************************************************)
(* Fiber-photometry pipeline (routine/utilities.py, routine/processing.py, *)
(* routine/ts_alignment.py): the loader, the timestamp classifier, the     *)
(* timestamp harmonizer, the event pooler and the photobleach corrector,   *)
(* each as a state machine over small tables.                              *)
(*                                                                         *)
(* Tables are sequences of row records (the sequence order is the row      *)
(* order of the DataFrame).  Real-valued timestamps are integers in tenths.*)
(***************************************************************************)
EXTENDS Integers, Sequences, FiniteSets, TLC

VARIABLES
    pc,            \* position of the stage under study
    raw,           \* load_data: the table handed in (data_file)
    discard_nfm,   \* load_data: the discard-count
    loaded,        \* load_data: the table returned, NoTable before the call
    ts_in,         \* load_ts: the source handed in
    ts_out,        \* load_ts: what the call returned or raised
    master,        \* align_ts: the caller's master table (data)
    ts_files,      \* align_ts: the caller's sources, name and table, in dict order
    al,            \* align_ts: the local state of the call
    al_ret,        \* align_ts: what the call returned, NoTable before or on an error
    pool_in,       \* pool_events: the caller's aligned master table (data)
    evt_range,     \* pool_events: the offset range (pre, post)
    pool_arg,      \* pool_events: the listed regions (rois) and the flag norm
    pooled,        \* pool_events: the table returned, NoTable before or on an error
    pb_data,       \* photobleach_correction: the caller's signal table (data)
    baseline_sig,  \* photobleach_correction: the baseline map, in dict order
    pb_rois,       \* photobleach_correction: the argument rois, NoRois for None
    pb,            \* photobleach_correction: the local state of the call
    data_norm,     \* photobleach_correction: the table returned, NoTable before or on an error
    pb_first,      \* photobleach_correction: the table handed to the first call
    pk_data,       \* find_pks: the caller's signal table (data)
    pk_arg,        \* find_pks: the arguments rois, prominence, freq_wd and sigs
    pk,            \* find_pks: the local state of the call
    pk_ret,        \* find_pks: the table returned, NoTable before or on an error
    npm,           \* NPMProcess: the fields of the object, the widgets shown, the files written
    npm_calls      \* NPMProcess: the calls made so far, and whether each one raised

vars == <<pc, raw, discard_nfm, loaded, ts_in, ts_out, master, ts_files, al, al_ret,
          pool_in, evt_range, pool_arg, pooled,
          pb_data, baseline_sig, pb_rois, pb, data_norm, pb_first,
          pk_data, pk_arg, pk, pk_ret, npm, npm_calls>>

loadVars == <<raw, discard_nfm, loaded>>
tsVars == <<ts_in, ts_out>>
alignVars == <<master, ts_files, al, al_ret>>
poolVars == <<pool_in, evt_range, pool_arg, pooled>>
photoVars == <<pb_data, baseline_sig, pb_rois, pb, data_norm, pb_first>>
peakVars == <<pk_data, pk_arg, pk, pk_ret>>
processVars == <<npm, npm_calls>>

(***************************************************************************)
(* Generic helpers.                                                        *)
(***************************************************************************)
NoTable == <<[none |-> TRUE]>>

Range(s) == {s[i] : i \in DOMAIN s}

SeqsUpTo(S, n) == UNION {[1..k -> S] : k \in 0..n}

RECURSIVE Concat(_)
Concat(ss) == IF ss = <<>> THEN <<>> ELSE Head(ss) \o Concat(Tail(ss))

MinOf(S) == CHOOSE m \in S : \A k \in S : m <= k

MaxOf(S) == CHOOSE m \in S : \A k \in S : m >= k

\* Values of the variables of a stage that is not under study.
NoSource == [ncols |-> 0, rows |-> <<>>]
NoResult == [ts_type |-> "none", cols |-> {}, rows |-> <<>>]
NoCall ==
    [data |-> [cols |-> {}, rows |-> <<>>], ts_dict |-> <<>>, i |-> 0, j |-> 1,
     evts |-> <<>>, warnings |-> {}, printed |-> <<>>, merges |-> <<>>, error |-> "none"]

IdleLoad == raw = <<>> /\ discard_nfm = 0 /\ loaded = NoTable
IdleTs == ts_in = NoSource /\ ts_out = NoResult
IdleAlign ==
    /\ master = [cols |-> {}, rows |-> <<>>]
    /\ ts_files = <<>>
    /\ al = NoCall
    /\ al_ret = NoTable
IdlePool ==
    /\ pool_in = <<>>
    /\ evt_range = <<0, 0>>
    /\ pool_arg = [rois |-> <<>>, norm |-> FALSE]
    /\ pooled = NoTable
NoRois == {"None"}
NoFits ==
    [rois |-> {}, i |-> 1, base_dict |-> <<>>, todo |-> {}, base_dfs |-> <<>>,
     sig_dfs |-> <<>>, warnings |-> <<>>, fits |-> <<>>, error |-> "none"]
IdlePhoto ==
    /\ pb_data = [cols |-> {}, groups |-> <<>>]
    /\ baseline_sig = <<>>
    /\ pb_rois = NoRois
    /\ pb = NoFits
    /\ data_norm = NoTable
    /\ pb_first = [cols |-> {}, groups |-> <<>>]
NoSigs == {"None"}
NoSearch ==
    [groups |-> <<>>, snap |-> [cols |-> {}, rows |-> <<>>], g |-> 1, r |-> 1,
     dat_sig |-> <<>>, error |-> "none"]
IdlePeaks ==
    /\ pk_data = [cols |-> {}, rows |-> <<>>]
    /\ pk_arg = [rois |-> <<>>, prominence |-> 0, freq_wd |-> 0, sigs |-> NoSigs]
    /\ pk = NoSearch
    /\ pk_ret = NoTable
\* An attribute that is None is the empty sequence, one that is set is the
\* sequence of its value.
NoProcess ==
    [data |-> <<>>, param_nfm_discard |-> <<>>, param_led_dict |-> <<>>,
     param_roi_dict |-> <<>>, widgets |-> {}, written |-> {}]
IdleProcess == npm = NoProcess /\ npm_calls = <<>>

(***************************************************************************)
(* Loader: utilities.load_data and utilities.cut_df.                       *)
(***************************************************************************)
MaxRows == 3
MaxTs == 1
MaxDiscard == 1

\* Light-source codes of the raw rows: two codes param_led_dict maps and 0, a
\* code it does not know.
LedCodes == {0, 1, 2}

\* NPMProcess.param_led_dict; NoSignal is the NaN that Series.map gives an
\* unmapped code.
NoSignal == "NaN"

led_dict(code) ==
    CASE code = 7 -> "initial"
      [] code = 1 -> "415nm"
      [] code = 2 -> "470nm"
      [] code = 4 -> "560nm"
      [] OTHER -> NoSignal

\* groupby("signal") visits the labels in sorted order.
SignalOrder == <<"415nm", "470nm", "560nm", "initial">>

\* The raw tables: row i, whose frame counter is i, with any device
\* timestamp and any light-source code.
RawRow(i, t, c) == [idx |-> i, FrameCounter |-> i, SystemTimestamp |-> t, LedState |-> c]

RawTables ==
    UNION {{[i \in 1..n |-> RawRow(i, f[i][1], f[i][2])] :
               f \in [1..n -> (0..MaxTs) \X LedCodes]} : n \in 0..MaxRows}

\* The permutations of df that sort_values(sortby) can return: every order
\* that is non-decreasing in the sort key (the default sort is not stable, so
\* rows with equal keys come in any order).
RECURSIVE SortedOrders(_, _)
SortedOrders(df, left) ==
    IF left = {} THEN {<<>>}
    ELSE UNION {{<<df[m]>> \o rest : rest \in SortedOrders(df, left \ {m})} :
                   m \in {k \in left : \A j \in left :
                              df[k].SystemTimestamp <= df[j].SystemTimestamp}}

SortValues(df) == SortedOrders(df, DOMAIN df)

\* A cut that forgets the sort and keeps the first nrow rows in table order.
cut_df_unsorted(df, nrow) == {SubSeq(df, 1, nrow)}

\* cut_df(df, nrow): df.sort_values(sortby).iloc[:nrow]
cut_df(df, nrow) == {SubSeq(s, 1, nrow) : s \in SortValues(df)}

\* A discard that keeps the frame whose counter equals the discard-count.
DiscardFrames_inclusive(data, d) == SelectSeq(data, LAMBDA r : r.FrameCounter >= d)

\* data[data["FrameCounter"] > discard_nfm]
DiscardFrames(data, d) == SelectSeq(data, LAMBDA r : r.FrameCounter > d)

\* data["signal"] = data["LedState"].map(led_dict)
MapSignal(data) ==
    [i \in DOMAIN data |->
        [idx |-> data[i].idx, FrameCounter |-> data[i].FrameCounter,
         SystemTimestamp |-> data[i].SystemTimestamp, LedState |-> data[i].LedState,
         signal |-> led_dict(data[i].LedState)]]

\* The rows of one group of data.groupby("signal"); NaN labels form no group.
SignalGroup(data, s) == SelectSeq(data, LAMBDA r : r.signal = s)

GroupLabels(data) == {data[i].signal : i \in DOMAIN data} \ {NoSignal}

\* data.groupby("signal").size().min()
MinGroupSize(data) == MinOf({Len(SignalGroup(data, s)) : s \in GroupLabels(data)})

\* Every table made of one choice from each set of cuts, in order.
RECURSIVE Joined(_)
Joined(cuts) ==
    IF cuts = <<>> THEN {<<>>}
    ELSE {h \o t : h \in Head(cuts), t \in Joined(Tail(cuts))}

\* The tables load_data can return for (data_file, discard_nfm): the groups
\* cut to nfm rows each and concatenated in label order.
load_data(data_file, d) ==
    LET data == MapSignal(DiscardFrames(data_file, d))
        labels == GroupLabels(data)
    IN  IF labels = {} THEN {<<>>}
        ELSE LET nfm == MinGroupSize(data)
                 cuts == [k \in DOMAIN SignalOrder |->
                             IF SignalOrder[k] \in labels
                             THEN cut_df(SignalGroup(data, SignalOrder[k]), nfm)
                             ELSE {<<>>}]
             IN  Joined(cuts)

InitLoad ==
    /\ pc = "load_data"
    /\ raw \in RawTables
    /\ discard_nfm \in 0..MaxDiscard
    /\ loaded = NoTable
    /\ IdleTs /\ IdleAlign /\ IdlePool /\ IdlePhoto /\ IdlePeaks /\ IdleProcess

LoadData ==
    /\ pc = "load_data"
    /\ loaded' \in load_data(raw, discard_nfm)
    /\ pc' = "loaded"
    /\ UNCHANGED <<raw, discard_nfm, tsVars, alignVars, poolVars, photoVars, peakVars, processVars>>

NextLoad == LoadData

SpecLoad == InitLoad /\ [][NextLoad]_vars

(***************************************************************************)
(* Loader properties.                                                      *)
(***************************************************************************)
\* The rows of the raw table that survive the discard and carry a mapped
\* light-source code of channel s, read off the raw table directly.
PreTrimRows(s) ==
    {i \in DOMAIN raw : raw[i].FrameCounter > discard_nfm
                          /\ s # NoSignal /\ led_dict(raw[i].LedState) = s}

KeptRows(s) == {i \in DOMAIN loaded : loaded[i].signal = s}

ChannelLabels == Range(SignalOrder)

\* C1: for every discard-count d >= 0 and every input table, the table
\* returned by load_data has no row whose frame counter is <= d.
C1_NoDiscardedFrame ==
    pc = "loaded" => \A i \in DOMAIN loaded : loaded[i].FrameCounter > discard_nfm

\* load_data has returned rows from a table that held frames at or below the
\* discard-count, the frame numbered exactly discard_nfm with a mapped code.
C1_Witness ==
    /\ pc = "loaded"
    /\ Len(loaded) > 0
    /\ \E i \in DOMAIN raw : /\ raw[i].FrameCounter = discard_nfm
                              /\ led_dict(raw[i].LedState) # NoSignal

\* C2: after load_data every signal label of the output has the same number
\* of rows, the minimum group size over the channel labels before trimming
\* (rows with unmapped codes dropped), and the rows kept for a channel are
\* its earliest-acquired rows by device timestamp.
C2_EqualGroupsEarliestRows ==
    pc = "loaded" =>
        LET present == {s \in ChannelLabels : PreTrimRows(s) # {}}
        IN  /\ \A i \in DOMAIN loaded : loaded[i].signal \in present
            /\ \A s \in present :
                  /\ \A l \in present :
                        Cardinality(KeptRows(s)) <= Cardinality(PreTrimRows(l))
                  /\ \E l \in present :
                        Cardinality(KeptRows(s)) = Cardinality(PreTrimRows(l))
                  /\ \A i \in KeptRows(s) :
                        /\ loaded[i].idx \in PreTrimRows(s)
                        /\ loaded[i].SystemTimestamp = raw[loaded[i].idx].SystemTimestamp
                        /\ \A j \in KeptRows(s) : i # j => loaded[i].idx # loaded[j].idx
                        /\ \A q \in PreTrimRows(s) :
                              (\A j \in KeptRows(s) : loaded[j].idx # q)
                                  => loaded[i].SystemTimestamp <= raw[q].SystemTimestamp

\* load_data has trimmed a channel: two channels with different group sizes,
\* and a row of the longer one that comes first in the table but was
\* acquired later than a kept row is dropped.
C2_Witness ==
    /\ pc = "loaded"
    /\ \E s \in ChannelLabels :
          /\ KeptRows(s) # {}
          /\ Cardinality(KeptRows(s)) < Cardinality(PreTrimRows(s))
          /\ \E q \in PreTrimRows(s), i \in KeptRows(s) :
                /\ \A j \in KeptRows(s) : loaded[j].idx # q
                /\ q < loaded[i].idx
                /\ raw[q].SystemTimestamp > loaded[i].SystemTimestamp

(***************************************************************************)
(* Timestamp sources: utilities.load_ts and utilities.df_to_numeric.       *)
(*                                                                         *)
(* A source is a header-less table read from a file: a cell is the token   *)
(* of the file, tagged with what it parses as.  s is its text when it is   *)
(* no number and no boolean; n is its value (a real in tenths, a boolean   *)
(* as 0/1).                                                                *)
(***************************************************************************)
MaxTsRows == 2

TxtCell(s) == [k |-> "txt", s |-> s, n |-> 0]
IntCell(n) == [k |-> "int", s |-> "", n |-> n]
RealCell(n) == [k |-> "real", s |-> "", n |-> n]
BoolCell(b) == [k |-> "bool", s |-> "", n |-> IF b THEN 1 ELSE 0]

\* NaN of a numeric column and of a text column.
NaN == -1
NaNStr == "nan"

\* The dtype pd.to_numeric(errors="ignore") leaves a column with: integer when
\* every cell parses as an integer, real when every cell parses as a number
\* and one of them as a real, boolean for a column of booleans, and the
\* column as it was (object) when one cell is no number.
ColDtype(rows, c) ==
    LET kinds == {rows[i][c].k : i \in DOMAIN rows}
    IN  IF kinds = {"int"} THEN "integer"
        ELSE IF kinds # {} /\ kinds \subseteq {"int", "real"} THEN "real"
        ELSE IF kinds = {"bool"} THEN "boolean"
        ELSE "object"

\* df_to_numeric(df): the dtype of every column.
df_to_numeric(ts) == [c \in 1..ts.ncols |-> ColDtype(ts.rows, c)]

\* The value of a cell of a numeric column: a real column holds tenths.
NumOf(cell, dtype) == IF dtype = "real" /\ cell.k = "int" THEN 10 * cell.n ELSE cell.n

RealText(n) == ToString(n \div 10) \o "." \o ToString(n % 10)

\* Series.astype(str) on one cell of a column of the given dtype.
StrOf(cell, dtype) ==
    CASE cell.k = "txt" -> cell.s
      [] cell.k = "bool" -> IF cell.n = 1 THEN "True" ELSE "False"
      [] cell.k = "real" -> RealText(cell.n)
      [] cell.k = "int" -> IF dtype = "real" THEN RealText(10 * cell.n) ELSE ToString(cell.n)

\* One row of a classified source; a column the source does not have holds NaN.
TsRow(fm_behav, ts, ts_fp, event, event_type) ==
    [fm_behav |-> fm_behav, ts |-> ts, ts_fp |-> ts_fp, fm_fp |-> NaN,
     event |-> event, event_type |-> event_type]

Raised(what) == [ts_type |-> what, cols |-> {}, rows |-> <<>>]

\* A 2-column branch that knows text events only and not boolean ones.
load_ts_2_text_only(ts) ==
    LET dt == df_to_numeric(ts)
        rows == ts.rows
    IN  IF dt[1] = "object" /\ dt[2] = "real"
        THEN [ts_type |-> "ts_keydown", cols |-> {"event", "ts", "event_type"},
              rows |-> [i \in DOMAIN rows |->
                          TsRow(NaN, NumOf(rows[i][2], dt[2]), NaN,
                                StrOf(rows[i][1], dt[1]), "keydown")]]
        ELSE IF dt[1] = "integer" /\ dt[2] = "real"
        THEN [ts_type |-> "ts_behav", cols |-> {"fm_behav", "ts"},
              rows |-> [i \in DOMAIN rows |->
                          TsRow(NumOf(rows[i][1], dt[1]), NumOf(rows[i][2], dt[2]), NaN,
                                NaNStr, NaNStr)]]
        ELSE IF dt[1] = "integer" /\ dt[2] = "object"
        THEN [ts_type |-> "ts_events", cols |-> {"fm_behav", "event", "event_type"},
              rows |-> [i \in DOMAIN rows |->
                          TsRow(NumOf(rows[i][1], dt[1]), NaN, NaN,
                                StrOf(rows[i][2], dt[2]), "user")]]
        ELSE Raised("ValueError")

\* load_ts, the 2-column branch.
load_ts_2(ts) ==
    LET dt == df_to_numeric(ts)
        rows == ts.rows
    IN  IF dt[1] = "object" /\ dt[2] = "real"
        THEN [ts_type |-> "ts_keydown", cols |-> {"event", "ts", "event_type"},
              rows |-> [i \in DOMAIN rows |->
                          TsRow(NaN, NumOf(rows[i][2], dt[2]), NaN,
                                StrOf(rows[i][1], dt[1]), "keydown")]]
        ELSE IF dt[1] = "integer" /\ dt[2] = "real"
        THEN [ts_type |-> "ts_behav", cols |-> {"fm_behav", "ts"},
              rows |-> [i \in DOMAIN rows |->
                          TsRow(NumOf(rows[i][1], dt[1]), NumOf(rows[i][2], dt[2]), NaN,
                                NaNStr, NaNStr)]]
        ELSE IF dt[1] = "integer" /\ dt[2] \in {"object", "boolean"}
        THEN [ts_type |-> "ts_events", cols |-> {"fm_behav", "event", "event_type"},
              rows |-> [i \in DOMAIN rows |->
                          TsRow(NumOf(rows[i][1], dt[1]), NaN, NaN,
                                StrOf(rows[i][2], dt[2]), "user")]]
        ELSE Raised("ValueError")

\* load_ts, the 5-column branch: the header row goes, the columns are coerced
\* again and the event label is put together.
load_ts_5(ts) ==
    LET first == ts.rows[1][1]
        body == IF first.k = "txt" /\ first.s = "DigitalIOName"
                THEN [ncols |-> ts.ncols, rows |-> Tail(ts.rows)] ELSE ts
        dt == df_to_numeric(body)
        rows == body.rows
    IN  [ts_type |-> "ts_arduino",
         cols |-> {"io_name", "io_flag", "io_state", "ts_fp", "ts", "event", "event_type"},
         rows |-> [i \in DOMAIN rows |->
                     TsRow(NaN, NumOf(rows[i][5], dt[5]), NumOf(rows[i][4], dt[4]),
                           StrOf(rows[i][1], dt[1]) \o "-" \o StrOf(rows[i][2], dt[2])
                               \o "-" \o StrOf(rows[i][3], dt[3]),
                           "arduino")]]

\* load_ts(ts): the classified table and its type, or the error raised.
load_ts(ts) ==
    IF ts.ncols = 2 THEN load_ts_2(ts)
    ELSE IF ts.ncols = 5 THEN load_ts_5(ts)
    ELSE Raised("ValueError")

\* The sources the classifier is run on: every table of 1 to 3 columns over
\* a pool of cells, and 5-column digital-I/O logs with or without the header
\* row the recording software writes.
CellPool == {TxtCell("start"), IntCell(1), RealCell(25), BoolCell(TRUE)}

HeaderRow == <<TxtCell("DigitalIOName"), TxtCell("DigitalIOFlag"), TxtCell("DigitalIOState"),
               TxtCell("SystemTimestamp"), TxtCell("ComputerTimestamp")>>

IoRows ==
    {<<TxtCell("Input0"), f, st, RealCell(105), RealCell(10)>> :
        f \in {IntCell(1), RealCell(25)}, st \in {BoolCell(TRUE), BoolCell(FALSE)}}

NarrowSources ==
    {[ncols |-> nc, rows |-> r] :
        nc \in {2}, r \in UNION {[1..k -> [1..2 -> CellPool]] : k \in 1..MaxTsRows}}

OddSources ==
    {[ncols |-> nc, rows |-> <<[c \in 1..nc |-> cell]>>] : nc \in {1, 3, 4}, cell \in CellPool}

IoSources ==
    {[ncols |-> 5, rows |-> h \o r] :
        h \in {<<>>, <<HeaderRow>>}, r \in SeqsUpTo(IoRows, MaxTsRows)} \ {[ncols |-> 5, rows |-> <<>>]}

TsSources == NarrowSources \cup OddSources \cup IoSources

InitTs ==
    /\ pc = "load_ts"
    /\ ts_in \in TsSources
    /\ ts_out = NoResult
    /\ IdleLoad /\ IdleAlign /\ IdlePool /\ IdlePhoto /\ IdlePeaks /\ IdleProcess

LoadTs ==
    /\ pc = "load_ts"
    /\ ts_out' = load_ts(ts_in)
    /\ pc' = IF ts_out'.ts_type = "ValueError" THEN "raised" ELSE "classified"
    /\ UNCHANGED <<ts_in, loadVars, alignVars, poolVars, photoVars, peakVars, processVars>>

NextTs == LoadTs

SpecTs == InitTs /\ [][NextTs]_vars

(***************************************************************************)
(* Timestamp-source properties.                                            *)
(***************************************************************************)
\* The type of column c of the source as the classification table names it,
\* after the coercion to numeric.
ColumnType(c) ==
    LET dt == ColDtype(ts_in.rows, c)
    IN  IF dt = "object" THEN "text" ELSE dt

HasHeader ==
    /\ ts_in.ncols = 5
    /\ ts_in.rows[1][1] = TxtCell("DigitalIOName")

DataRows == IF HasHeader THEN Tail(ts_in.rows) ELSE ts_in.rows

\* C3: load_ts classifies every source, after coercing its columns to
\* numeric where possible, into exactly one outcome: 2 columns (text, real)
\* a keydown log, (integer, real) a behavior-frame timestamp log, (integer,
\* text or boolean) a behavior-frame event log, 5 columns a digital-I/O log
\* whose event label is the name-flag-state string with a leading
\* "DigitalIOName" row stripped, and every other source fails.
C3_Classification ==
    pc \in {"classified", "raised"} =>
        /\ ts_out.ts_type =
              (IF ts_in.ncols = 2 /\ ColumnType(1) = "text" /\ ColumnType(2) = "real"
               THEN "ts_keydown"
               ELSE IF ts_in.ncols = 2 /\ ColumnType(1) = "integer" /\ ColumnType(2) = "real"
               THEN "ts_behav"
               ELSE IF ts_in.ncols = 2 /\ ColumnType(1) = "integer"
                       /\ ColumnType(2) \in {"text", "boolean"}
               THEN "ts_events"
               ELSE IF ts_in.ncols = 5 THEN "ts_arduino"
               ELSE "ValueError")
        /\ (pc = "raised") = (ts_out.ts_type = "ValueError")
        /\ ts_out.ts_type = "ts_arduino" =>
              /\ Len(ts_out.rows) = Len(DataRows)
              /\ \A i \in DOMAIN ts_out.rows :
                    /\ ts_out.rows[i].event_type = "arduino"
                    /\ ts_out.rows[i].event =
                          DataRows[i][1].s \o "-"
                          \o (IF DataRows[i][2].k = "int" /\ \A j \in DOMAIN DataRows :
                                                              DataRows[j][2].k = "int"
                              THEN ToString(DataRows[i][2].n)
                              ELSE IF DataRows[i][2].k = "int"
                              THEN ToString(DataRows[i][2].n) \o ".0"
                              ELSE ToString(DataRows[i][2].n \div 10) \o "."
                                   \o ToString(DataRows[i][2].n % 10))
                          \o "-" \o (IF DataRows[i][3].n = 1 THEN "True" ELSE "False")
        /\ ts_out.ts_type = "ts_events" =>
              \A i \in DOMAIN ts_out.rows : ts_out.rows[i].fm_behav = ts_in.rows[i][1].n

\* load_ts has classified a digital-I/O log that came with its header row and
\* at least one event.
C3_Witness ==
    /\ pc = "classified"
    /\ HasHeader
    /\ ts_out.ts_type = "ts_arduino"
    /\ Len(ts_out.rows) >= 1
    /\ ts_out.rows[1].event = "Input0-1-True"

\* load_ts has classified a behavior-frame event log whose events are booleans.
C3_WitnessBooleanEvents ==
    /\ pc = "classified"
    /\ ts_out.ts_type = "ts_events"
    /\ ColumnType(2) = "boolean"

(***************************************************************************)
(* Timestamp harmonizer: ts_alignment.align_ts.                            *)
(*                                                                         *)
(* master and ts_files are the caller's tables; al is the local state of   *)
(* the running call (its data table, its ts_dict in insertion order, the   *)
(* loop index, the event rows gathered, the warnings emitted, the lines    *)
(* printed and the merge steps run); al_ret is what the call returned.     *)
(***************************************************************************)
MaxMaster == 3
MaxSources == 2

\* One row of the table align_ts works on; a column the table does not have
\* (yet) holds NaN.
Row(fm_fp, ts, ts_fp, fm_behav, ts_behav, event, event_type) ==
    [fm_fp |-> fm_fp, ts |-> ts, ts_fp |-> ts_fp, fm_behav |-> fm_behav,
     ts_behav |-> ts_behav, event |-> event, event_type |-> event_type]

\* data.rename(columns={"SystemTimestamp": "ts_fp", "FrameCounter": "fm_fp",
\* "ComputerTimestamp": "ts"}): a new table, the caller's is not touched.
RenameColumn(c) ==
    CASE c = "SystemTimestamp" -> "ts_fp"
      [] c = "FrameCounter" -> "fm_fp"
      [] c = "ComputerTimestamp" -> "ts"
      [] OTHER -> c

Rename(data) ==
    [cols |-> {RenameColumn(c) : c \in data.cols},
     rows |-> [i \in DOMAIN data.rows |->
                  Row(data.rows[i].FrameCounter,
                      IF "ComputerTimestamp" \in data.cols
                      THEN data.rows[i].ComputerTimestamp ELSE NaN,
                      data.rows[i].SystemTimestamp, NaN, NaN, NaNStr, NaNStr)]]

\* ts_dict[key] = tab on a dict kept as a sequence in insertion order: an
\* existing key keeps its place and gets the new value.
DictKeys(d) == {d[i].key : i \in DOMAIN d}

DictGet(d, key) == (CHOOSE i \in DOMAIN d : d[i].key = key)

DictPut(d, key, tab) ==
    IF key \in DictKeys(d)
    THEN [i \in DOMAIN d |-> IF d[i].key = key THEN [key |-> key, tab |-> tab] ELSE d[i]]
    ELSE Append(d, [key |-> key, tab |-> tab])

DictPop(d, key) == SelectSeq(d, LAMBDA e : e.key # key)

\* The values of a column in ascending order, NaN left out.
RECURSIVE Ascending(_)
Ascending(S) ==
    IF S = {} THEN <<>> ELSE <<MinOf(S)>> \o Ascending(S \ {MinOf(S)})

\* sort_values("fm_fp"): ascending, rows without a frame counter last, rows
\* of one frame counter in the order they had.
SortByFrame(rows) ==
    LET ks == Ascending({rows[i].fm_fp : i \in DOMAIN rows} \ {NaN})
    IN  Concat([k \in DOMAIN ks |-> SelectSeq(rows, LAMBDA r : r.fm_fp = ks[k])])
        \o SelectSeq(rows, LAMBDA r : r.fm_fp = NaN)

\* left.merge(right, on="fm_fp", how="outer"): the pairs of row numbers of the
\* merged table, every pair of rows with the same key, then the left rows
\* without a partner (r = 0) and the right rows without one (l = 0).
OuterMerge(left, right) ==
    Concat([i \in DOMAIN left |->
               LET mates == {j \in DOMAIN right : right[j].fm_fp = left[i].fm_fp}
                   order == Ascending(mates)
               IN  IF mates = {} THEN <<[l |-> i, r |-> 0]>>
                   ELSE [k \in DOMAIN order |-> [l |-> i, r |-> order[k]]]])
    \o LET alone == Ascending({j \in DOMAIN right :
                         \A i \in DOMAIN left : left[i].fm_fp # right[j].fm_fp})
       IN  [k \in DOMAIN alone |-> [l |-> 0, r |-> alone[k]]]

\* The row of right that pd.merge_asof(..., on=key, direction="nearest")
\* pairs with the key value t (right is sorted by key): the last row at or
\* before t or the first row at or after t, whichever is nearer, the earlier
\* one when both are as near; 0 when right has no row.
NearestRow(right, key, t) ==
    LET back == {i \in DOMAIN right : right[i][key] <= t}
        fwd == {i \in DOMAIN right : right[i][key] >= t}
    IN  IF back = {} /\ fwd = {} THEN 0
        ELSE IF fwd = {} THEN MaxOf(back)
        ELSE IF back = {} THEN MinOf(fwd)
        ELSE IF t - right[MaxOf(back)][key] <= right[MinOf(fwd)][key] - t
             THEN MaxOf(back) ELSE MinOf(fwd)

\* A join that takes the first row at or after t (direction="forward").
AsofFrame_forward(data, key, t) ==
    LET fwd == {i \in DOMAIN data.rows : data.rows[i][key] >= t}
    IN  IF fwd = {} THEN NaN ELSE data.rows[MinOf(fwd)].fm_fp

\* The frame counter merge_asof gives a row with key value t.
AsofFrame(data, key, t) ==
    LET i == NearestRow(data.rows, key, t)
    IN  IF i = 0 THEN NaN ELSE data.rows[i].fm_fp

\* x.duplicated(keep=False) has a True: two rows share a frame counter.
HasDuplicateFrame(rows) ==
    \E i, j \in DOMAIN rows : i # j /\ rows[i].fm_fp = rows[j].fm_fp

\* What load_ts does to the table it is handed: the columns are renamed and
\* an event_type column is set on a keydown or event log, and the event and
\* event_type columns on a digital-I/O log that has no header row.
LoadedInPlace(src) ==
    LET t == load_ts(src).ts_type
    IN  IF t \in {"ts_keydown", "ts_events"}
        THEN [ncols |-> 3,
              rows |-> [i \in DOMAIN src.rows |->
                          Append(src.rows[i],
                                 TxtCell(IF t = "ts_keydown" THEN "keydown" ELSE "user"))]]
        ELSE IF t = "ts_arduino" /\ src.rows[1][1] # TxtCell("DigitalIOName")
        THEN [ncols |-> 7,
              rows |-> [i \in DOMAIN src.rows |->
                          src.rows[i] \o <<TxtCell(load_ts(src).rows[i].event),
                                            TxtCell("arduino")>>]]
        ELSE src

\* A call that hands load_ts the caller's table itself.
SourceAfterLoad_no_copy(src) == LoadedInPlace(src)

\* load_ts is handed dat.copy(): the caller's table after the call.
SourceAfterLoad(src) == src

\* A check that never finds the canonical type in ts_dict.
AlreadySupplied_unchecked(ts_type, ts_dict) == FALSE

\* ts_type in ts_dict.keys()
AlreadySupplied(ts_type, ts_dict) == ts_type \in DictKeys(ts_dict)

\* align_ts, lines 11-19: the renamed table and an empty ts_dict.
AlignCall ==
    /\ pc = "align_ts"
    /\ al' = [NoCall EXCEPT !.data = Rename(master), !.i = 1]
    /\ pc' = IF ts_files = <<>> THEN "merge_fp" ELSE "load"
    /\ UNCHANGED <<master, ts_files, al_ret, loadVars, tsVars, poolVars, photoVars, peakVars, processVars>>

\* align_ts, lines 20-30: one turn of the loop that classifies the sources.
AlignLoad ==
    /\ pc = "load"
    /\ LET dname == ts_files[al.i].name
           dat == load_ts(ts_files[al.i].src)
           ts_type == dat.ts_type
           next == IF al.i = Len(ts_files) THEN "merge_fp" ELSE "load"
       IN  /\ ts_files' = [ts_files EXCEPT ![al.i].src = SourceAfterLoad(@)]
           /\ IF ts_type = "ValueError"
              THEN /\ al' = [al EXCEPT !.error = "ValueError: Don't know how to handle TS"]
                   /\ pc' = "raised"
              ELSE IF ts_type \in {"ts_behav", "ts_fp"}
              THEN IF AlreadySupplied(ts_type, al.ts_dict)
                   THEN /\ al' = [al EXCEPT
                                     !.printed = Append(@, "Interpreting " \o dname),
                                     !.error = "ValueError: Multiple " \o ts_type \o " supplied"]
                        /\ pc' = "raised"
                   ELSE /\ al' = [al EXCEPT
                                     !.printed = Append(@, "Interpreting " \o dname),
                                     !.ts_dict = DictPut(@, ts_type, dat),
                                     !.i = @ + 1]
                        /\ pc' = next
              ELSE /\ al' = [al EXCEPT
                                !.printed = Append(@, "Interpreting " \o dname),
                                !.ts_dict = DictPut(@, dname, dat),
                                !.i = @ + 1]
                   /\ pc' = next
    /\ UNCHANGED <<master, al_ret, loadVars, tsVars, poolVars, photoVars, peakVars, processVars>>

\* data.merge(ts_fp, on="fm_fp", how="left", validate="one_to_one") for a
\* table of frame counters and timestamps.
LeftMergeFrames(data, tab) ==
    [cols |-> data.cols \cup tab.cols,
     rows |-> [i \in DOMAIN data.rows |->
                  LET d == data.rows[i]
                      mates == SelectSeq(tab.rows, LAMBDA e : e.fm_fp = d.fm_fp)
                  IN  IF mates = <<>> \/ "ts" \in data.cols THEN d
                      ELSE [d EXCEPT !.ts = mates[1].ts]]]

\* align_ts, lines 32-42: the frame-timestamp source, if ts_dict has one.
AlignMergeFp ==
    /\ pc = "merge_fp"
    /\ IF "ts_fp" \in DictKeys(al.ts_dict)
       THEN LET ts_fp == al.ts_dict[DictGet(al.ts_dict, "ts_fp")].tab
                popped == DictPop(al.ts_dict, "ts_fp")
            IN  IF "fm_fp" \notin ts_fp.cols
                THEN /\ al' = [al EXCEPT !.ts_dict = popped, !.error = "KeyError: fm_fp"]
                     /\ pc' = "raised"
                ELSE /\ al' = [al EXCEPT
                                  !.ts_dict = popped,
                                  !.warnings =
                                      IF MaxOf({ts_fp.rows[i].fm_fp : i \in DOMAIN ts_fp.rows})
                                         # MaxOf({al.data.rows[i].fm_fp : i \in DOMAIN al.data.rows})
                                      THEN @ \cup {"FP timestamp file frames differ"} ELSE @,
                                  !.data = LeftMergeFrames(al.data, ts_fp),
                                  !.merges = Append(@, "ts_fp")]
                     /\ pc' = "merge_behav"
       ELSE /\ al' = al
            /\ pc' = "merge_behav"
    /\ UNCHANGED <<master, ts_files, al_ret, loadVars, tsVars, poolVars, photoVars, peakVars, processVars>>

\* A merge that takes the last frame at or before the behavior timestamp
\* (direction="backward", the default of merge_asof).
AsofBehav_backward(tab, data) ==
    [i \in DOMAIN tab.rows |->
        [tab.rows[i] EXCEPT !.fm_fp =
            LET back == {k \in DOMAIN data.rows : data.rows[k].ts <= tab.rows[i].ts}
            IN  IF back = {} THEN NaN ELSE data.rows[MaxOf(back)].fm_fp]]

\* pd.merge_asof(ts_behav, data[["fm_fp", "ts"]], on="ts", direction="nearest")
AsofBehav(tab, data) ==
    [i \in DOMAIN tab.rows |->
        [tab.rows[i] EXCEPT !.fm_fp = AsofFrame(data, "ts", tab.rows[i].ts)]]

\* data.merge(ts_behav, on="fm_fp", how="outer").sort_values("fm_fp")
MergeBehav(data, tab, ts_behav) ==
    [cols |-> data.cols \cup (tab.cols \ {"ts"}) \cup {"ts_behav"},
     rows |-> LET pairs == OuterMerge(data.rows, ts_behav)
              IN  SortByFrame([k \in DOMAIN pairs |->
                      LET d == data.rows[pairs[k].l]
                          e == ts_behav[pairs[k].r]
                      IN  IF pairs[k].l = 0
                          THEN Row(e.fm_fp, NaN, NaN, e.fm_behav, e.ts, e.event, e.event_type)
                          ELSE IF pairs[k].r = 0 THEN d
                          ELSE Row(d.fm_fp, d.ts, d.ts_fp, e.fm_behav, e.ts,
                                   e.event, e.event_type)])]

\* align_ts, lines 44-62: the behavior-timestamp source, if ts_dict has one.
AlignMergeBehav ==
    /\ pc = "merge_behav"
    /\ IF "ts_behav" \in DictKeys(al.ts_dict)
       THEN LET tab == al.ts_dict[DictGet(al.ts_dict, "ts_behav")].tab
                popped == DictPop(al.ts_dict, "ts_behav")
            IN  IF "ts" \in al.data.cols
                THEN IF "ts" \notin tab.cols
                     THEN /\ al' = [al EXCEPT !.ts_dict = popped, !.error = "KeyError: ts"]
                          /\ pc' = "raised"
                     ELSE LET ts_behav == AsofBehav(tab, al.data)
                          IN  /\ al' = [al EXCEPT
                                           !.ts_dict = popped,
                                           !.warnings =
                                               IF HasDuplicateFrame(ts_behav)
                                               THEN @ \cup {"Multiple Behavior frames mapped to the same FP frame"}
                                               ELSE @,
                                           !.data = MergeBehav(al.data, tab, ts_behav),
                                           !.merges = Append(@, "ts_behav")]
                              /\ pc' = IF popped = <<>> THEN "concat" ELSE "events"
                ELSE /\ al' = [al EXCEPT
                                  !.ts_dict = popped,
                                  !.warnings = @ \cup {"No FP TS supplied, cannot align Behavior frames"}]
                     /\ pc' = IF popped = <<>> THEN "concat" ELSE "events"
       ELSE /\ al' = al
            /\ pc' = IF al.ts_dict = <<>> THEN "concat" ELSE "events"
    /\ UNCHANGED <<master, ts_files, al_ret, loadVars, tsVars, poolVars, photoVars, peakVars, processVars>>

\* The rows one event source adds to evts (lines 66-95), or "skip" when the
\* column it would be joined on is missing from data.  An event row keeps
\* the columns that reach the final merge.
EventRow(fm_fp, e) == [fm_fp |-> fm_fp, event |-> e.event, event_type |-> e.event_type]

AlignedEvents(dat, data) ==
    IF "fm_fp" \in dat.cols
    THEN [joined |-> TRUE,
          rows |-> [i \in DOMAIN dat.rows |-> EventRow(dat.rows[i].fm_fp, dat.rows[i])]]
    ELSE IF "fm_behav" \in dat.cols
    THEN IF "fm_behav" \notin data.cols
         THEN [joined |-> FALSE, rows |-> <<>>]
         ELSE [joined |-> TRUE,
               rows |-> Concat([i \in DOMAIN dat.rows |->
                           LET mates == SelectSeq(data.rows,
                                           LAMBDA d : d.fm_behav = dat.rows[i].fm_behav)
                           IN  IF mates = <<>> THEN <<EventRow(NaN, dat.rows[i])>>
                               ELSE [k \in DOMAIN mates |->
                                        EventRow(mates[k].fm_fp, dat.rows[i])]])]
    ELSE IF "ts_fp" \in dat.cols
    THEN IF "ts_fp" \notin data.cols
         THEN [joined |-> FALSE, rows |-> <<>>]
         ELSE [joined |-> TRUE,
               rows |-> [i \in DOMAIN dat.rows |->
                           EventRow(AsofFrame(data, "ts_fp", dat.rows[i].ts_fp), dat.rows[i])]]
    ELSE IF "ts" \in dat.cols
    THEN IF "ts" \notin data.cols
         THEN [joined |-> FALSE, rows |-> <<>>]
         ELSE [joined |-> TRUE,
               rows |-> [i \in DOMAIN dat.rows |->
                           EventRow(AsofFrame(data, "ts", dat.rows[i].ts), dat.rows[i])]]
    ELSE [joined |-> FALSE, rows |-> <<>>]

\* Which join an event source takes: the column it is joined on.
JoinColumn(dat) ==
    IF "fm_fp" \in dat.cols THEN "fm_fp"
    ELSE IF "fm_behav" \in dat.cols THEN "fm_behav"
    ELSE IF "ts_fp" \in dat.cols THEN "ts_fp"
    ELSE IF "ts" \in dat.cols THEN "ts"
    ELSE "none"

\* align_ts, lines 65-96: one turn of the loop over the remaining sources.
AlignEvent ==
    /\ pc = "events"
    /\ LET dname == al.ts_dict[al.j].key
           dat == al.ts_dict[al.j].tab
           got == AlignedEvents(dat, al.data)
           next == IF al.j = Len(al.ts_dict) THEN "concat" ELSE "events"
       IN  /\ al' = IF got.joined
                    THEN [al EXCEPT !.evts = Append(@, got.rows),
                                    !.printed = Append(@, "aligned " \o dname),
                                    !.j = @ + 1]
                    ELSE IF JoinColumn(dat) = "none"
                    THEN [al EXCEPT !.printed = Append(@, "aligned " \o dname),
                                    !.j = @ + 1]
                    ELSE [al EXCEPT !.warnings = @ \cup {"cannot align " \o dname},
                                    !.j = @ + 1]
           /\ pc' = next
    /\ UNCHANGED <<master, ts_files, al_ret, loadVars, tsVars, poolVars, photoVars, peakVars, processVars>>

\* data.merge(evts[["fm_fp", "event", "event_type"]], on="fm_fp", how="outer")
\* .sort_values("fm_fp").reset_index(drop=True)
MergeEvents(data, evts) ==
    [cols |-> data.cols \cup {"event", "event_type"},
     rows |-> LET pairs == OuterMerge(data.rows, evts)
              IN  SortByFrame([k \in DOMAIN pairs |->
                      LET d == data.rows[pairs[k].l]
                          e == evts[pairs[k].r]
                      IN  IF pairs[k].l = 0
                          THEN Row(e.fm_fp, NaN, NaN, NaN, NaN, e.event, e.event_type)
                          ELSE IF pairs[k].r = 0 THEN d
                          ELSE [d EXCEPT !.event = e.event, !.event_type = e.event_type]])]

\* align_ts, lines 97-108: the event rows are put together, sorted and
\* merged onto data, and the call returns.
AlignReturn ==
    /\ pc = "concat"
    /\ IF al.evts = <<>>
       THEN /\ al' = al
            /\ al_ret' = [data |-> al.data, ts_dict |-> al.ts_dict]
       ELSE LET evts == SortByFrame(Concat(al.evts))
                data == MergeEvents(al.data, evts)
            IN  /\ al' = [al EXCEPT
                             !.warnings =
                                 IF HasDuplicateFrame(evts)
                                 THEN @ \cup {"Multiple events mapped to the same FP frame"}
                                 ELSE @,
                             !.data = data,
                             !.merges = Append(@, "events")]
                /\ al_ret' = [data |-> data, ts_dict |-> al.ts_dict]
    /\ pc' = "returned"
    /\ UNCHANGED <<master, ts_files, loadVars, tsVars, poolVars, photoVars, peakVars, processVars>>

\* The master tables: frames 10, 11, ... with the device clock at 10.0,
\* 11.0, ... and, when the recording has one, the computer clock at 0.0,
\* 1.0, ...
MasterRow(i) ==
    [FrameCounter |-> 9 + i, SystemTimestamp |-> 100 + 10 * (i - 1),
     ComputerTimestamp |-> 10 * (i - 1)]

MasterTables ==
    {[cols |-> c, rows |-> [i \in 1..MaxMaster |-> MasterRow(i)]] :
        c \in {{"FrameCounter", "SystemTimestamp"},
               {"FrameCounter", "SystemTimestamp", "ComputerTimestamp"}}}

\* The timestamp files: behavior-frame timestamp logs, a keydown log, a
\* behavior-frame event log, one of behavior frames that no timestamp log
\* covers, a digital-I/O log and two files of no known shape.
BehavSources ==
    {[ncols |-> 2, rows |-> <<<<IntCell(0), RealCell(9)>>>>],
     [ncols |-> 2, rows |-> <<<<IntCell(0), RealCell(9)>>, <<IntCell(1), RealCell(12)>>>>],
     [ncols |-> 2, rows |-> <<<<IntCell(0), RealCell(9)>>, <<IntCell(1), RealCell(15)>>>>],
     [ncols |-> 2, rows |-> <<<<IntCell(0), RealCell(4)>>, <<IntCell(1), IntCell(2)>>>>]}

EventSources ==
    {[ncols |-> 2, rows |-> <<<<TxtCell("start"), RealCell(10)>>, <<TxtCell("stop"), RealCell(25)>>>>],
     [ncols |-> 2, rows |-> <<<<IntCell(0), TxtCell("lick")>>, <<IntCell(1), TxtCell("lick")>>>>],
     [ncols |-> 2, rows |-> <<<<IntCell(2), TxtCell("poke")>>, <<IntCell(3), TxtCell("poke")>>>>],
     [ncols |-> 5, rows |-> <<HeaderRow, <<TxtCell("Input0"), IntCell(1), BoolCell(TRUE),
                                           RealCell(112), RealCell(12)>>>>]}

UnknownSources ==
    {[ncols |-> 3, rows |-> <<<<IntCell(0), RealCell(10), TxtCell("start")>>>>],
     [ncols |-> 2, rows |-> <<<<RealCell(10), RealCell(12)>>>>]}

AlignSources == BehavSources \cup EventSources \cup UnknownSources

\* The names the sources are supplied under: the base names of the files
\* (NPMAlign.load_ts takes .csv and .xlsx files only).
SourceNames == {"In1.csv", "In2.xlsx", "In4.xlsx"}

FileDicts ==
    {f \in UNION {[1..k -> [name : SourceNames, src : AlignSources]] : k \in 0..MaxSources} :
        \A i, j \in DOMAIN f : i # j => f[i].name # f[j].name}

InitAlign ==
    /\ pc = "align_ts"
    /\ master \in MasterTables
    /\ ts_files \in FileDicts
    /\ al = NoCall
    /\ al_ret = NoTable
    /\ IdleLoad /\ IdleTs /\ IdlePool /\ IdlePhoto /\ IdlePeaks /\ IdleProcess

NextAlign ==
    \/ AlignCall
    \/ AlignLoad
    \/ AlignMergeFp
    \/ AlignMergeBehav
    \/ AlignEvent
    \/ AlignReturn

SpecAlign == InitAlign /\ [][NextAlign]_vars

\* Sources supplied under any name: align_ts takes the keys of ts_files as
\* they are, and an uploaded file comes under the name it was uploaded with
\* (NPMAlign.on_ts_remote).  One behavior-timestamp log and the event logs.
GivenNames == {"In1.csv", "ts_behav", "ts_fp"}

NamedSources == {src \in BehavSources : Len(src.rows) = 1} \cup EventSources

NamedFileDicts ==
    {f \in UNION {[1..k -> [name : GivenNames, src : NamedSources]] : k \in 0..MaxSources} :
        \A i, j \in DOMAIN f : i # j => f[i].name # f[j].name}

InitAlignNamed ==
    /\ pc = "align_ts"
    /\ master \in MasterTables
    /\ ts_files \in NamedFileDicts
    /\ al = NoCall
    /\ al_ret = NoTable
    /\ IdleLoad /\ IdleTs /\ IdlePool /\ IdlePhoto /\ IdlePeaks /\ IdleProcess

SpecAlignNamed == InitAlignNamed /\ [][NextAlign]_vars

(***************************************************************************)
(* Timestamp-harmonizer properties.                                        *)
(***************************************************************************)
\* The supplied sources that load_ts classifies as the type t.
Classified(t) == {i \in DOMAIN ts_files : load_ts(ts_files[i].src).ts_type = t}

PastLoading == pc \in {"merge_fp", "merge_behav", "events", "concat", "returned", "raised"}

DataShapeError ==
    /\ pc = "raised"
    /\ al.error \in {"ValueError: Don't know how to handle TS",
                     "ValueError: Multiple ts_behav supplied",
                     "ValueError: Multiple ts_fp supplied"}

\* C4: at most one supplied source may be classified as the canonical
\* frame-timestamp source and at most one as the canonical
\* behavior-timestamp source: whatever the sources and their order, with a
\* second source of either category align_ts fails with a hard error.
C4_SecondCanonicalSourceFails ==
    \A t \in {"ts_behav", "ts_fp"} :
        (Cardinality(Classified(t)) >= 2 /\ PastLoading) =>
            /\ DataShapeError
            /\ al_ret = NoTable

\* align_ts has failed on the second of two behavior-timestamp sources.
C4_Witness ==
    /\ pc = "raised"
    /\ Cardinality(Classified("ts_behav")) = 2
    /\ al.error = "ValueError: Multiple ts_behav supplied"
    /\ al.i = 2

\* C5: when align_ts fails with a data-shape error no partial merge is
\* performed: every source is classified before the first merge step runs,
\* no master table is returned, and the caller's master table and source
\* tables are left unchanged.
C5_NoPartialMerge ==
    /\ [](/\ DataShapeError =>
                /\ al.merges = <<>>
                /\ al.data = Rename(master)
                /\ al.evts = <<>>
                /\ al_ret = NoTable
          /\ al.merges # <<>> =>
                /\ al.i = Len(ts_files) + 1
                /\ \A i \in DOMAIN ts_files :
                      load_ts(ts_files[i].src).ts_type # "ValueError")
    /\ [][master' = master /\ ts_files' = ts_files]_vars

\* align_ts has failed on a source of no known shape after it had classified
\* a keydown log, on whose copy load_ts had set columns.
C5_Witness ==
    /\ DataShapeError
    /\ al.i = 2
    /\ al.error = "ValueError: Don't know how to handle TS"
    /\ load_ts(ts_files[1].src).ts_type = "ts_keydown"

AbsDiff(a, b) == IF a >= b THEN a - b ELSE b - a

\* C6: with a behavior-timestamp source and a device-timestamp column in the
\* master table, every behavior frame gets the master frame counter whose
\* device timestamp is nearest to its timestamp; when several behavior
\* frames map to one master frame all of them are kept and a warning is
\* emitted.
C6_NearestTimeMerge ==
    (/\ pc \in {"events", "concat", "returned"}
     /\ Classified("ts_behav") # {}
     /\ "ComputerTimestamp" \in master.cols) =>
        LET behav == load_ts(ts_files[CHOOSE i \in Classified("ts_behav") : TRUE].src).rows
            data == IF pc = "returned" THEN al_ret.data.rows ELSE al.data.rows
            FramesOf(b) == {data[k].fm_fp : k \in {x \in DOMAIN data :
                                data[x].fm_behav = b.fm_behav /\ data[x].ts_behav = b.ts}}
        IN  /\ \A n \in DOMAIN behav :
                  \E m \in DOMAIN master.rows :
                      /\ FramesOf(behav[n]) = {master.rows[m].FrameCounter}
                      /\ \A o \in DOMAIN master.rows :
                            AbsDiff(master.rows[m].ComputerTimestamp, behav[n].ts)
                                <= AbsDiff(master.rows[o].ComputerTimestamp, behav[n].ts)
            /\ (\E n, o \in DOMAIN behav : n # o /\ FramesOf(behav[n]) = FramesOf(behav[o]))
                  => "Multiple Behavior frames mapped to the same FP frame" \in al.warnings

\* align_ts has returned for the master table with device timestamps 0.0,
\* 1.0, 2.0 at frames 10, 11, 12 and a behavior frame at 0.9, which is at
\* frame 11, as is the behavior frame after it.
C6_Witness ==
    /\ pc = "returned"
    /\ Len(master.rows) = 3
    /\ \E k, l \in DOMAIN al_ret.data.rows :
          /\ al_ret.data.rows[k].ts_behav = 9
          /\ al_ret.data.rows[k].fm_fp = 11
          /\ al_ret.data.rows[k].fm_behav = 0
          /\ al_ret.data.rows[l].fm_behav = 1
          /\ al_ret.data.rows[l].fm_fp = 11
    /\ "Multiple Behavior frames mapped to the same FP frame" \in al.warnings

(***************************************************************************)
(* Event pooler: utilities.pool_events.                                    *)
(*                                                                         *)
(* A value of a pooled region is kept as it is computed: raw (the value x  *)
(* of the master row), zero (the zero fill), or z, the z-score             *)
(*   (x - S/n) / sqrt((Q - S*S/n) / (n - 1))                               *)
(* for n pre-event values of sum S and sum of squares Q, held exactly as   *)
(* num = n*x - S, n, and var = n*Q - S*S.                                  *)
(***************************************************************************)
MaxFrames == 4
\* The values region G0 takes at a frame.
G0Values == {0, 1}

Regions == {"G0", "R0"}

RawVal(x) == [k |-> "raw", num |-> x, n |-> 1, var |-> 0]
ZeroVal == [k |-> "zero", num |-> 0, n |-> 1, var |-> 0]
ZVal(x, S, Q, n) == [k |-> "z", num |-> n * x - S, n |-> n, var |-> n * Q - S * S]

RECURSIVE SumSeq(_)
SumSeq(s) == IF s = <<>> THEN 0 ELSE Head(s) + SumSeq(Tail(s))

\* np.clip(x, 0, max_fm)
Clip(x, max_fm) ==
    LET low == IF x < 0 THEN 0 ELSE x
    IN  IF low > max_fm THEN max_fm ELSE low

\* A range that is not clipped to the frames of the recording.
FrameRange_unclipped(offsets, fm, max_fm) ==
    <<offsets[1] + fm, offsets[2] + fm>>

\* tuple((np.array(evt_range) + fm).clip(0, max_fm))
FrameRange(offsets, fm, max_fm) ==
    <<Clip(offsets[1] + fm, max_fm), Clip(offsets[2] + fm, max_fm)>>

\* Rows that take the whole window for the baseline.
PreEvent_whole_window(dat_sub) == dat_sub

\* dat_sub.loc[dat_sub["fm_evt"] < 0]
PreEvent(dat_sub) == SelectSeq(dat_sub, LAMBDA r : r.fm_evt < 0)

\* A normalization that leaves a region as it is when the window has fewer
\* than two pre-event rows.
Normalized_keep_raw(dat_sub, roi) ==
    LET pre == PreEvent(dat_sub)
        n == Len(pre)
        S == SumSeq([i \in DOMAIN pre |-> pre[i].val[roi].num])
        Q == SumSeq([i \in DOMAIN pre |-> pre[i].val[roi].num * pre[i].val[roi].num])
    IN  IF n < 2 THEN dat_sub
        ELSE [i \in DOMAIN dat_sub |->
                 [dat_sub[i] EXCEPT !.val[roi] =
                     IF n * Q - S * S > 0 THEN ZVal(dat_sub[i].val[roi].num, S, Q, n)
                     ELSE ZeroVal]]

\* Lines 88-93 for one region of one window: Series.mean() and Series.std()
\* of the pre-event values (std is NaN for fewer than two values, and NaN > 0
\* is False), then the z-score or the zero fill.
Normalized(dat_sub, roi) ==
    LET pre == PreEvent(dat_sub)
        n == Len(pre)
        S == SumSeq([i \in DOMAIN pre |-> pre[i].val[roi].num])
        Q == SumSeq([i \in DOMAIN pre |-> pre[i].val[roi].num * pre[i].val[roi].num])
        std_positive == n >= 2 /\ n * Q - S * S > 0
    IN  [i \in DOMAIN dat_sub |->
            [dat_sub[i] EXCEPT !.val[roi] =
                IF std_positive THEN ZVal(dat_sub[i].val[roi].num, S, Q, n) ELSE ZeroVal]]

RECURSIVE NormalizedAll(_, _)
NormalizedAll(dat_sub, rois) ==
    IF rois = <<>> THEN dat_sub
    ELSE NormalizedAll(Normalized(dat_sub, Head(rois)), Tail(rois))

\* data with the evt_id column of lines 72-76, set on the caller's table.
WithEventId(data) ==
    [i \in DOMAIN data |->
        [data[i] EXCEPT !.evt_id =
            IF data[i].event = NaNStr THEN NaNStr
            ELSE data[i].event \o "-" \o ToString(data[i].fm_fp)]]

\* Lines 80-93: the window of the event of one row.
EventWindow(data, row, offsets, rois, norm) ==
    LET fm == row.fm_fp
        max_fm == MaxOf({data[i].fm_fp : i \in DOMAIN data})
        fm_range == FrameRange(offsets, fm, max_fm)
        rows == SelectSeq(data, LAMBDA r : fm_range[1] <= r.fm_fp /\ r.fm_fp <= fm_range[2])
        dat_sub == [i \in DOMAIN rows |->
                       [fm_fp |-> rows[i].fm_fp, fm_evt |-> rows[i].fm_fp - fm,
                        event |-> row.event, evt_id |-> row.evt_id, val |-> rows[i].val]]
    IN  IF norm THEN NormalizedAll(dat_sub, rois) ELSE dat_sub

\* pool_events(data, evt_range, rois, norm): the windows of all events, one
\* after the other.
PooledEvents(data, offsets, rois, norm) ==
    LET events == SelectSeq(data, LAMBDA r : r.evt_id # NaNStr)
    IN  Concat([e \in DOMAIN events |-> EventWindow(data, events[e], offsets, rois, norm)])

\* The aligned master tables: frames 0, 1, ..., an event or none at each, a
\* free value for region G0 and a value that differs from frame to frame for
\* region R0.
PoolRow(fm, event, g) ==
    [fm_fp |-> fm, event |-> event, evt_id |-> NaNStr,
     val |-> [r \in Regions |-> RawVal(IF r = "G0" THEN g ELSE 2 * fm + 1)]]

PoolTables ==
    {[i \in 1..MaxFrames |-> PoolRow(i - 1, f[i][1], f[i][2])] :
        f \in [1..MaxFrames -> {NaNStr, "lick"} \X G0Values]}

EvtRanges == {<<-5, 5>>, <<-2, 1>>, <<-1, 0>>, <<0, 1>>, <<1, 2>>}

InitPool ==
    /\ pc = "pool_events"
    /\ pool_in \in PoolTables
    /\ evt_range \in EvtRanges
    /\ pool_arg \in {[rois |-> <<"G0", "R0">>, norm |-> TRUE],
                     [rois |-> <<"R0">>, norm |-> TRUE],
                     [rois |-> <<"G0", "R0">>, norm |-> FALSE]}
    /\ pooled = NoTable
    /\ IdleLoad /\ IdleTs /\ IdleAlign /\ IdlePhoto /\ IdlePeaks /\ IdleProcess

\* pool_events: the event labels and ids are set on data itself, the windows
\* are cut and concatenated; pd.concat raises on an empty list of windows.
PoolEvents ==
    /\ pc = "pool_events"
    /\ pool_in' = WithEventId(pool_in)
    /\ IF \A i \in DOMAIN pool_in : pool_in[i].event = NaNStr
       THEN /\ pooled' = NoTable
            /\ pc' = "raised"
       ELSE /\ pooled' = PooledEvents(pool_in', evt_range, pool_arg.rois, pool_arg.norm)
            /\ pc' = "pooled"
    /\ UNCHANGED <<evt_range, pool_arg, loadVars, tsVars, alignVars, photoVars, peakVars, processVars>>

NextPool == PoolEvents

SpecPool == InitPool /\ [][NextPool]_vars

(***************************************************************************)
(* Photobleach corrector: processing.photobleach_correction and fit_exp2.  *)
(*                                                                         *)
(* A signal table is its region columns and one row group per signal       *)
(* label.  A cell of a group is the trace of one region over the rows of   *)
(* the group: raw samples, NaN, a biexponential curve exp2(x, *p) given by *)
(* its parameters, or a corrected trace given by the raw samples and the   *)
(* parameters of the baseline curve regressed out of them.  Samples are    *)
(* finite numbers.  The parameters a, c and e are held doubled (the median *)
(* of an even number of samples is a half), b and d are held in tenths.    *)
(***************************************************************************)
\* a[:50], a[-50:]
MedianWindow == 50
\* p0[1] = -10 and p0[3] = 0.1, in tenths
P0_b == -100
P0_d == 1

Trace(k, v, p, n) == [k |-> k, v |-> v, p |-> p, n |-> n]
RawTrace(v) == Trace("raw", v, <<>>, Len(v))
NaNTrace(n) == Trace("nan", <<>>, <<>>, n)

Signals == {"415nm", "470nm"}

\* data.loc[data["signal"] == sig] has rows
HasRows(data, sig) == \E i \in DOMAIN data.groups : data.groups[i].signal = sig

\* data.loc[data["signal"] == sig]
SignalRows(data, sig) ==
    data.groups[CHOOSE i \in DOMAIN data.groups : data.groups[i].signal = sig]

\* The k-th sample of a in ascending order.
KthSmallest(a, k) ==
    MinOf({v \in Range(a) : Cardinality({h \in DOMAIN a : a[h] <= v}) >= k})

\* Twice Series.median()
Median2(a) ==
    IF Len(a) % 2 = 1
    THEN 2 * KthSmallest(a, (Len(a) + 1) \div 2)
    ELSE KthSmallest(a, Len(a) \div 2) + KthSmallest(a, Len(a) \div 2 + 1)

\* a[:50]
FirstSamples(a) ==
    SubSeq(a, 1, IF Len(a) < MedianWindow THEN Len(a) ELSE MedianWindow)

\* a[-50:]
LastSamples(a) ==
    SubSeq(a, IF Len(a) < MedianWindow THEN 1 ELSE Len(a) - MedianWindow + 1, Len(a))

\* p0 = (drg, -10, drg, 0.1, dmin - drg)
InitialGuess(a) ==
    LET dmax == Median2(FirstSamples(a))
        dmin == Median2(LastSamples(a))
        drg == dmax - dmin
    IN  <<drg, P0_b, drg, P0_d, dmin - drg>>

\* The outcomes of curve_fit: parameters it converged to, which may be the
\* initial guess itself, or an exception.
CurveFit(p0) ==
    {[ok |-> TRUE, popt |-> q] : q \in {p0, [p0 EXCEPT ![2] = -30, ![5] = @ + 1]}}
        \cup {[ok |-> FALSE, popt |-> <<>>]}

\* A fallback that is not the initial guess.
popt_on_failure_flat(p0) == <<0, 0, 0, 0, p0[5]>>

\* except: ... popt = p0
popt_on_failure(p0) == p0

\* fit_exp2(a, x) under the outcome fit of curve_fit: exp2(x, *popt) with x
\* linearly spaced over the length of a.
fit_exp2(a, fit) ==
    Trace("exp2", <<>>,
          IF fit.ok THEN fit.popt ELSE popt_on_failure(InitialGuess(a)), Len(a))

FitWarning == [msg |-> "Biexponential fit failed", roi |-> "", sig |-> ""]
BaselineWarning(e) == [msg |-> "Cannot find signal", roi |-> e.roi, sig |-> e.sig]

\* rois when the argument is None (lines 15-19)
AutoRois == {baseline_sig[i].roi : i \in DOMAIN baseline_sig}
                \cup {baseline_sig[i].base_roi : i \in DOMAIN baseline_sig}

\* set(base_dict.values())
Baselines(base_dict) ==
    {<<base_dict[i].base_roi, base_dict[i].base_sig>> : i \in DOMAIN base_dict}

\* Where the call goes after the existence checks of lines 22-32.
AfterChecks(base_dict) == IF base_dict = <<>> THEN "concat_norm" ELSE "fit"

\* photobleach_correction is entered: rois is set (lines 15-19), base_dict
\* is empty.
PhotobleachCall ==
    /\ pc = "photobleach_correction"
    /\ pb' = [pb EXCEPT !.rois = IF pb_rois = NoRois THEN AutoRois ELSE pb_rois]
    /\ pc' = IF baseline_sig = <<>> THEN "concat_norm" ELSE "check"
    /\ UNCHANGED <<pb_data, baseline_sig, pb_rois, data_norm, pb_first,
                   loadVars, tsVars, alignVars, poolVars, peakVars, processVars>>

\* One round of the loop of lines 22-32: data.loc[..., roi] raises KeyError
\* for a region that is not a column; a target without rows is passed over,
\* a baseline without rows is warned about and passed over.
CheckBaseline ==
    /\ pc = "check"
    /\ LET e == baseline_sig[pb.i]
           last == pb.i = Len(baseline_sig)
       IN  IF e.roi \notin pb_data.cols
                \/ (HasRows(pb_data, e.sig) /\ e.base_roi \notin pb_data.cols)
           THEN /\ pb' = [pb EXCEPT !.error = "KeyError"]
                /\ pc' = "raised"
           ELSE IF ~HasRows(pb_data, e.sig)
           THEN /\ pb' = [pb EXCEPT !.i = IF last THEN 1 ELSE @ + 1,
                                    !.todo = Baselines(pb.base_dict)]
                /\ pc' = IF last THEN AfterChecks(pb.base_dict) ELSE "check"
           ELSE IF ~HasRows(pb_data, e.base_sig)
           THEN /\ pb' = [pb EXCEPT !.i = IF last THEN 1 ELSE @ + 1,
                                    !.todo = Baselines(pb.base_dict),
                                    !.warnings = Append(@, BaselineWarning(e))]
                /\ pc' = IF last THEN AfterChecks(pb.base_dict) ELSE "check"
           ELSE /\ pb' = [pb EXCEPT !.i = IF last THEN 1 ELSE @ + 1,
                                    !.base_dict = Append(@, e),
                                    !.todo = Baselines(Append(pb.base_dict, e))]
                /\ pc' = IF last THEN "fit" ELSE "check"
    /\ UNCHANGED <<pb_data, baseline_sig, pb_rois, data_norm, pb_first,
                   loadVars, tsVars, alignVars, poolVars, peakVars, processVars>>

\* The copy of the rows of a signal under a new label, the listed regions
\* set to NaN (lines 39-41, 55-60).
FreshRows(sig, label) ==
    LET rows == SignalRows(pb_data, sig)
    IN  [signal |-> label,
         vals |-> [c \in pb_data.cols |->
                      IF c \in pb.rois THEN NaNTrace(rows.vals[c].n) ELSE rows.vals[c]]]

\* One round of the loop of lines 35-46, over set(base_dict.values()) in no
\* fixed order: the baseline trace is fitted, a
\* failed fit warns and falls back, and the curve is stored in the "-fit"
\* rows of the baseline signal.
FitBaseline ==
    /\ pc = "fit"
    /\ \E b \in pb.todo :
          LET base_roi == b[1]
              base_sig == b[2]
              dat_fit == SignalRows(pb_data, base_sig).vals[base_roi].v
              left == pb.todo \ {b}
              base_df == IF base_sig \in DictKeys(pb.base_dfs)
                         THEN pb.base_dfs[DictGet(pb.base_dfs, base_sig)].tab
                         ELSE FreshRows(base_sig, base_sig \o "-fit")
          IN  \E fit \in CurveFit(InitialGuess(dat_fit)) :
                 /\ pb' = [pb EXCEPT
                              !.base_dfs = DictPut(@, base_sig,
                                  [base_df EXCEPT !.vals[base_roi] = fit_exp2(dat_fit, fit)]),
                              !.warnings = IF fit.ok THEN @ ELSE Append(@, FitWarning),
                              !.fits = Append(@, [roi |-> base_roi, sig |-> base_sig,
                                                  ok |-> fit.ok]),
                              !.todo = left]
                 /\ pc' = IF left = {} THEN "correct" ELSE "fit"
    /\ UNCHANGED <<pb_data, baseline_sig, pb_rois, data_norm, pb_first,
                   loadVars, tsVars, alignVars, poolVars, peakVars, processVars>>

\* One round of the loop of lines 49-67: the target trace less the robust
\* regression on the fitted baseline, and its z-score, stored in the "-norm"
\* and "-norm-zs" rows of the target signal.
CorrectSignal ==
    /\ pc = "correct"
    /\ LET e == pb.base_dict[pb.i]
           had == e.sig \in DictKeys(pb.sig_dfs)
           sig_df == pb.sig_dfs[DictGet(pb.sig_dfs, e.sig)].tab
           norm_df == IF had THEN sig_df.norm ELSE FreshRows(e.sig, e.sig \o "-norm")
           zs_df == IF had THEN sig_df.zs ELSE FreshRows(e.sig, e.sig \o "-norm-zs")
           dat_sig == SignalRows(pb_data, e.sig).vals[e.roi]
           baseline == pb.base_dfs[DictGet(pb.base_dfs, e.base_sig)].tab.vals[e.base_roi]
       IN  /\ pb' = [pb EXCEPT
                        !.sig_dfs = DictPut(@, e.sig,
                            [norm |-> [norm_df EXCEPT !.vals[e.roi] =
                                          Trace("norm", dat_sig.v, baseline.p, dat_sig.n)],
                             zs |-> [zs_df EXCEPT !.vals[e.roi] =
                                        Trace("norm-zs", dat_sig.v, baseline.p, dat_sig.n)]]),
                        !.i = @ + 1]
           /\ pc' = IF pb.i = Len(pb.base_dict) THEN "concat_norm" ELSE "correct"
    /\ UNCHANGED <<pb_data, baseline_sig, pb_rois, data_norm, pb_first,
                   loadVars, tsVars, alignVars, poolVars, peakVars, processVars>>

\* A table of the added row groups alone.
data_norm_without_data(data, base_dfs, sig_dfs) ==
    [cols |-> data.cols,
     groups |-> [i \in DOMAIN base_dfs |-> base_dfs[i].tab]
            \o Concat([i \in DOMAIN sig_dfs |->
                          <<sig_dfs[i].tab.norm, sig_dfs[i].tab.zs>>])]

\* pd.concat([data] + list(base_dfs.values()) + list(sig_dfs.values()))
data_norm_concat(data, base_dfs, sig_dfs) ==
    [cols |-> data.cols,
     groups |-> data.groups
            \o [i \in DOMAIN base_dfs |-> base_dfs[i].tab]
            \o Concat([i \in DOMAIN sig_dfs |->
                          <<sig_dfs[i].tab.norm, sig_dfs[i].tab.zs>>])]

\* Lines 68-71: data, the fitted baselines and the corrected signals, one
\* after the other.
PhotobleachReturn ==
    /\ pc = "concat_norm"
    /\ data_norm' = data_norm_concat(pb_data, pb.base_dfs, pb.sig_dfs)
    /\ pc' = "returned"
    /\ UNCHANGED <<pb_data, baseline_sig, pb_rois, pb, pb_first,
                   loadVars, tsVars, alignVars, poolVars, peakVars, processVars>>

\* The corrector is called again, with the same baseline map, on the table
\* its first call returned.
PhotobleachRerun ==
    /\ pc = "returned"
    /\ pb_data = pb_first
    /\ pb_data' = data_norm
    /\ pb' = NoFits
    /\ data_norm' = NoTable
    /\ pc' = "photobleach_correction"
    /\ UNCHANGED <<baseline_sig, pb_rois, pb_first,
                   loadVars, tsVars, alignVars, poolVars, peakVars, processVars>>

\* The signal tables: region G0 alone or both regions, both signals or one,
\* and for every trace one course of samples: a step down over 60 samples,
\* two samples, or a step down over 52 samples with two samples half way.
Courses ==
    {<<[level |-> 2, n |-> 30], [level |-> 0, n |-> 30]>>,
     <<[level |-> 1, n |-> 2]>>,
     <<[level |-> 2, n |-> 25], [level |-> 1, n |-> 2], [level |-> 0, n |-> 25]>>}

RECURSIVE Samples(_, _)
Samples(course, floor) ==
    IF course = <<>> THEN <<>>
    ELSE [i \in 1..Head(course).n |-> floor + Head(course).level]
            \o Samples(Tail(course), floor)

\* The level the samples of a region under a signal start from.
Floor(roi, sig) ==
    (IF roi = "G0" THEN 10 ELSE 30) + (IF sig = "415nm" THEN 0 ELSE 10)

SignalTable(cols, sigs, course) ==
    [cols |-> cols,
     groups |-> [i \in DOMAIN sigs |->
                    [signal |-> sigs[i],
                     vals |-> [c \in cols |-> RawTrace(Samples(course, Floor(c, sigs[i])))]]]]

SignalTables ==
    {SignalTable(cols, sigs, course) :
        cols \in {{"G0"}, Regions},
        sigs \in {<<"415nm", "470nm">>, <<"470nm">>, <<"415nm">>},
        course \in Courses}

\* The baseline maps: a 415nm baseline for one or both 470nm targets, in
\* either dict order.
MapEntries ==
    {[roi |-> r, sig |-> "470nm", base_roi |-> b, base_sig |-> "415nm"] :
        r \in Regions, b \in Regions}

BaselineMaps ==
    {m \in SeqsUpTo(MapEntries, Cardinality(Regions)) :
        /\ m # <<>>
        /\ \A i, j \in DOMAIN m : i # j => m[i].roi # m[j].roi}

InitPhoto ==
    /\ pc = "photobleach_correction"
    /\ pb_data \in SignalTables
    /\ baseline_sig \in BaselineMaps
    /\ pb_rois \in {NoRois, pb_data.cols}
    /\ pb = NoFits
    /\ data_norm = NoTable
    /\ pb_first = pb_data
    /\ IdleLoad /\ IdleTs /\ IdleAlign /\ IdlePool /\ IdlePeaks /\ IdleProcess

NextPhoto ==
    \/ PhotobleachCall
    \/ CheckBaseline
    \/ FitBaseline
    \/ CorrectSignal
    \/ PhotobleachReturn

SpecPhoto == InitPhoto /\ [][NextPhoto]_vars

NextPhotoRerun ==
    \/ NextPhoto
    \/ PhotobleachRerun

SpecPhotoRerun == InitPhoto /\ [][NextPhotoRerun]_vars

(***************************************************************************)
(* Peak detector: processing.find_pks.                                     *)
(*                                                                         *)
(* A row of the signal table carries its signal label, the value of every  *)
(* region and the cells of the columns find_pks adds ("" where the table   *)
(* has no such column); cols names the added columns the table has.        *)
(***************************************************************************)
MaxPkRows == 4

PksCol(roi) == roi \o "-pks"
FreqCol(roi) == roi \o "-freq"
PkCols == {PksCol(roi) : roi \in Regions} \cup {FreqCol(roi) : roi \in Regions}

\* The keys of data.groupby("signal"), in sorted order.
GroupKeys(data) ==
    SelectSeq(<<"415nm", "470nm">>,
              LAMBDA sig : \E i \in DOMAIN data.rows : data.rows[i].signal = sig)

\* dat_sig.index: the rows of a signal, in row order.
GroupIndex(data, sig) ==
    Ascending({i \in DOMAIN data.rows : data.rows[i].signal = sig})

\* The samples that are higher than both neighbours, a flat top counted
\* once, at its middle.
LocalMaxima(x) ==
    {m \in DOMAIN x :
        \E l \in 2..m, r \in m..(Len(x) - 1) :
            /\ \A j \in l..r : x[j] = x[m]
            /\ x[l - 1] < x[m]
            /\ x[r + 1] < x[m]
            /\ m = (l + r) \div 2}

\* The lowest sample between a peak and the next higher sample, or the end,
\* on one side.
LeftBase(x, p) == MinOf({x[k] : k \in {i \in 1..p : \A j \in i..p : x[j] <= x[p]}})
RightBase(x, p) == MinOf({x[k] : k \in {i \in p..Len(x) : \A j \in p..i : x[j] <= x[p]}})

Prominence(x, p) ==
    x[p] - (IF LeftBase(x, p) > RightBase(x, p) THEN LeftBase(x, p) ELSE RightBase(x, p))

\* find_peaks(dat, prominence=prominence)[0]
find_peaks(x, prominence) == {p \in LocalMaxima(x) : Prominence(x, p) >= prominence}

\* A write of the indicators that reaches every row of the table.
WritePks_all_rows(data, idx, col, pks) ==
    [cols |-> data.cols \cup {col},
     rows |-> [i \in DOMAIN data.rows |->
                  [data.rows[i] EXCEPT !.cell[col] = "False"]]]

\* data.loc[dat_sig.index, roi + "-pks"] = pvec: the column is made if the
\* table has none (NaN on the other rows), and the rows of idx take the
\* indicators.
WritePks(data, idx, col, pks) ==
    [cols |-> data.cols \cup {col},
     rows |-> [i \in DOMAIN data.rows |->
                  IF \E k \in DOMAIN idx : idx[k] = i
                  THEN [data.rows[i] EXCEPT !.cell[col] =
                           IF (CHOOSE k \in DOMAIN idx : idx[k] = i) \in pks
                           THEN "True" ELSE "False"]
                  ELSE IF col \in data.cols THEN data.rows[i]
                  ELSE [data.rows[i] EXCEPT !.cell[col] = "nan"]]]

\* Series.rolling(freq_wd).sum() of a column of indicators: NaN until the
\* window is full and where the window holds a NaN.
RollingSum(cells, freq_wd) ==
    [k \in DOMAIN cells |->
        IF k < freq_wd \/ \E j \in (k - freq_wd + 1)..k : cells[j] = "nan"
        THEN "nan"
        ELSE ToString(Cardinality({j \in (k - freq_wd + 1)..k : cells[j] = "True"}))]

\* find_pks is entered: groupby takes its copy of the table, sorted by
\* signal, from which every dat_sig is cut.
FindPksCall ==
    /\ pc = "find_pks"
    /\ pk' = [NoSearch EXCEPT !.groups = GroupKeys(pk_data), !.snap = pk_data]
    /\ pc' = IF GroupKeys(pk_data) = <<>> THEN "return_data" ELSE "search"
    /\ UNCHANGED <<pk_data, pk_arg, pk_ret,
                   loadVars, tsVars, alignVars, poolVars, photoVars, processVars>>

\* One round of the loops of lines 116-127: a signal that is not selected
\* is passed over; for a selected signal and one region the peaks of dat_sig
\* are written to data, and with freq_wd the rolling sum of the indicators of
\* dat_sig is written to dat_sig, which raises KeyError when dat_sig has no
\* indicator column.
FindPeaks ==
    /\ pc = "search"
    /\ LET sig == pk.groups[pk.g]
           roi == pk_arg.rois[pk.r]
           idx == GroupIndex(pk.snap, sig)
           dat == [k \in DOMAIN idx |-> pk.snap.rows[idx[k]].val[roi]]
           pks == find_peaks(dat, pk_arg.prominence)
           last_roi == pk.r = Len(pk_arg.rois)
           last_sig == pk.g = Len(pk.groups)
       IN  IF pk_arg.sigs = NoSigs \/ sig \notin pk_arg.sigs
           THEN /\ pk' = [pk EXCEPT !.g = @ + 1, !.r = 1]
                /\ pc' = IF last_sig THEN "return_data" ELSE "search"
                /\ UNCHANGED pk_data
           ELSE /\ pk_data' = WritePks(pk_data, idx, PksCol(roi), pks)
                /\ IF pk_arg.freq_wd # 0 /\ PksCol(roi) \notin pk.snap.cols
                   THEN /\ pk' = [pk EXCEPT !.error = "KeyError"]
                        /\ pc' = "raised"
                   ELSE /\ pk' = [pk EXCEPT
                                     !.g = IF last_roi THEN @ + 1 ELSE @,
                                     !.r = IF last_roi THEN 1 ELSE @ + 1,
                                     !.dat_sig =
                                         IF pk_arg.freq_wd = 0 THEN @
                                         ELSE Append(@,
                                             [signal |-> sig, col |-> FreqCol(roi),
                                              cells |-> RollingSum(
                                                  [k \in DOMAIN idx |->
                                                      pk.snap.rows[idx[k]].cell[PksCol(roi)]],
                                                  pk_arg.freq_wd)])]
                        /\ pc' = IF last_roi /\ last_sig THEN "return_data" ELSE "search"
    /\ UNCHANGED <<pk_arg, pk_ret,
                   loadVars, tsVars, alignVars, poolVars, photoVars, processVars>>

\* return data: the table handed in, as it now is.
FindPksReturn ==
    /\ pc = "return_data"
    /\ pk_ret' = pk_data
    /\ pc' = "returned"
    /\ UNCHANGED <<pk_data, pk_arg, pk,
                   loadVars, tsVars, alignVars, poolVars, photoVars, processVars>>

\* find_pks is called again, now with a window width, on the table a call
\* without window width returned.
FindPksAgain ==
    /\ pc = "returned"
    /\ pk_arg.freq_wd = 0
    /\ pk_arg.sigs # NoSigs
    /\ pk_arg' = [pk_arg EXCEPT !.freq_wd = 2]
    /\ pk' = NoSearch
    /\ pk_ret' = NoTable
    /\ pc' = "find_pks"
    /\ UNCHANGED <<pk_data, loadVars, tsVars, alignVars, poolVars, photoVars, processVars>>

\* The signal tables: MaxPkRows rows, all of signal 470nm, of the two signals
\* in turn, or of signal 470nm but for the second row; any course of region
\* G0 and one peak, at the third row, of region R0.
SignalPatterns == {"one", "alternate", "second"}

PatternSignal(pattern, i) ==
    IF pattern = "alternate" THEN (IF i % 2 = 1 THEN "470nm" ELSE "415nm")
    ELSE IF pattern = "second" /\ i = 2 THEN "415nm"
    ELSE "470nm"

PkValues == {0, 1, 2}

PkRow(sig, g, i) ==
    [signal |-> sig,
     val |-> [roi \in Regions |-> IF roi = "G0" THEN g ELSE IF i = 3 THEN 2 ELSE 0],
     cell |-> [c \in PkCols |-> ""]]

PkTables ==
    {[cols |-> {}, rows |-> [i \in 1..MaxPkRows |-> PkRow(PatternSignal(p, i), g[i], i)]] :
        p \in SignalPatterns, g \in [1..MaxPkRows -> PkValues]}

PkArgs ==
    [rois : {<<"G0", "R0">>}, prominence : {1, 2}, freq_wd : {0, 2},
     sigs : {NoSigs, {"470nm"}, {"415nm", "470nm"}}]

InitPeaks ==
    /\ pc = "find_pks"
    /\ pk_data \in PkTables
    /\ pk_arg \in PkArgs
    /\ pk = NoSearch
    /\ pk_ret = NoTable
    /\ IdleLoad /\ IdleTs /\ IdleAlign /\ IdlePool /\ IdlePhoto /\ IdleProcess

NextPeaks ==
    \/ FindPksCall
    \/ FindPeaks
    \/ FindPksReturn
    \/ FindPksAgain

SpecPeaks == InitPeaks /\ [][NextPeaks]_vars

(***************************************************************************)
(* Processing front end: oo_interface.NPMProcess, the setters that matter  *)
(* to load_data, their widget callbacks, and load_data itself.  A failed   *)
(* assert raises AssertionError and leaves the object as it was.           *)
(***************************************************************************)
MaxCalls == 5

Call(op, ok) == [op |-> op, ok |-> ok]

\* NPMBase.__init__ and NPMProcess.__init__
NewProcess ==
    [NoProcess EXCEPT !.param_led_dict = <<"default">>]

\* A check that only looks at the data.
Configured_data_only(obj) == obj.data # <<>>

\* The three asserts of NPMProcess.load_data
Configured(obj) ==
    /\ obj.data # <<>>
    /\ obj.param_roi_dict # <<>>
    /\ obj.param_nfm_discard # <<>>

\* set_data(dpath): the file is read; without dpath a file chooser is shown.
SetData ==
    /\ pc = "NPMProcess"
    /\ Len(npm_calls) < MaxCalls
    /\ \E dpath \in {"None", "In0.csv"} :
          /\ npm' = IF dpath = "None"
                    THEN [npm EXCEPT !.widgets = @ \cup {"data"}]
                    ELSE [npm EXCEPT !.data = <<"raw">>]
          /\ npm_calls' = Append(npm_calls, Call("set_data(" \o dpath \o ")", TRUE))
    /\ UNCHANGED <<pc, loadVars, tsVars, alignVars, poolVars, photoVars, peakVars>>

\* on_set_data_local: the file chosen in the file chooser is read.
OnSetData ==
    /\ pc = "NPMProcess"
    /\ Len(npm_calls) < MaxCalls
    /\ "data" \in npm.widgets
    /\ npm' = [npm EXCEPT !.data = <<"raw">>]
    /\ npm_calls' = Append(npm_calls, Call("on_set_data_local", TRUE))
    /\ UNCHANGED <<pc, loadVars, tsVars, alignVars, poolVars, photoVars, peakVars>>

\* set_roi(roi_dict): asserts the data; the mapping is kept, or without one
\* a selection widget is shown.
SetRoi ==
    /\ pc = "NPMProcess"
    /\ Len(npm_calls) < MaxCalls
    /\ \E roi_dict \in {"None", "PARAM_ROIS"} :
          /\ npm' = IF npm.data = <<>> THEN npm
                    ELSE IF roi_dict = "None"
                    THEN [npm EXCEPT !.widgets = @ \cup {"roi"}]
                    ELSE [npm EXCEPT !.param_roi_dict = <<roi_dict>>]
          /\ npm_calls' = Append(npm_calls,
                                 Call("set_roi(" \o roi_dict \o ")", npm.data # <<>>))
    /\ UNCHANGED <<pc, loadVars, tsVars, alignVars, poolVars, photoVars, peakVars>>

\* on_roi: the regions selected in the widget become the mapping.
OnRoi ==
    /\ pc = "NPMProcess"
    /\ Len(npm_calls) < MaxCalls
    /\ "roi" \in npm.widgets
    /\ npm' = [npm EXCEPT !.param_roi_dict = <<"selected">>]
    /\ npm_calls' = Append(npm_calls, Call("on_roi", TRUE))
    /\ UNCHANGED <<pc, loadVars, tsVars, alignVars, poolVars, photoVars, peakVars>>

\* set_nfm_discard(nfm): asserts the data; the count is kept, or without one
\* it is set to 0 and a slider is shown.
SetNfmDiscard ==
    /\ pc = "NPMProcess"
    /\ Len(npm_calls) < MaxCalls
    /\ \E nfm \in {"None", "1"} :
          /\ npm' = IF npm.data = <<>> THEN npm
                    ELSE IF nfm = "None"
                    THEN [npm EXCEPT !.param_nfm_discard = <<"0">>,
                                     !.widgets = @ \cup {"nfm"}]
                    ELSE [npm EXCEPT !.param_nfm_discard = <<nfm>>]
          /\ npm_calls' = Append(npm_calls,
                                 Call("set_nfm_discard(" \o nfm \o ")", npm.data # <<>>))
    /\ UNCHANGED <<pc, loadVars, tsVars, alignVars, poolVars, photoVars, peakVars>>

\* on_nfm: the value of the slider becomes the count.
OnNfm ==
    /\ pc = "NPMProcess"
    /\ Len(npm_calls) < MaxCalls
    /\ "nfm" \in npm.widgets
    /\ npm' = [npm EXCEPT !.param_nfm_discard = <<"1">>]
    /\ npm_calls' = Append(npm_calls, Call("on_nfm", TRUE))
    /\ UNCHANGED <<pc, loadVars, tsVars, alignVars, poolVars, photoVars, peakVars>>

\* NPMProcess.load_data: the asserts, then the loaded table takes the place
\* of the data and the figure of the raw signals is written.
ProcessLoadData ==
    /\ pc = "NPMProcess"
    /\ Len(npm_calls) < MaxCalls
    /\ npm_calls' = Append(npm_calls, Call("load_data", Configured(npm)))
    /\ IF Configured(npm)
       THEN /\ npm' = [npm EXCEPT
                          !.data = <<"loaded">>,
                          !.written = @ \cup {"raw_signals.html"}]
            /\ pc' = "loaded"
       ELSE UNCHANGED <<npm, pc>>
    /\ UNCHANGED <<loadVars, tsVars, alignVars, poolVars, photoVars, peakVars>>

InitProcess ==
    /\ pc = "NPMProcess"
    /\ npm = NewProcess
    /\ npm_calls = <<>>
    /\ IdleLoad /\ IdleTs /\ IdleAlign /\ IdlePool /\ IdlePhoto /\ IdlePeaks

NextProcess ==
    \/ SetData
    \/ OnSetData
    \/ SetRoi
    \/ OnRoi
    \/ SetNfmDiscard
    \/ OnNfm
    \/ ProcessLoadData

SpecProcess == InitProcess /\ [][NextProcess]_vars

(***************************************************************************)
(* Event-pooler properties.                                                *)
(***************************************************************************)
MaxFrameIndex == MaxOf({pool_in[i].fm_fp : i \in DOMAIN pool_in})

\* A window bound clipped to [0, max_frame_index].
ClippedBound(x) ==
    IF x < 0 THEN 0 ELSE IF x > MaxFrameIndex THEN MaxFrameIndex ELSE x

EventRows == {i \in DOMAIN pool_in : pool_in[i].event # NaNStr}

EventIdOf(i) == pool_in[i].event \o "-" \o ToString(pool_in[i].fm_fp)

\* The rows of the returned table that make the window of the event of row i.
WindowOf(i) == {k \in DOMAIN pooled : pooled[k].evt_id = EventIdOf(i)}

\* The master rows in the clipped frame range of the event of row i.
InRange(i) ==
    {j \in DOMAIN pool_in :
        /\ ClippedBound(pool_in[i].fm_fp + evt_range[1]) <= pool_in[j].fm_fp
        /\ pool_in[j].fm_fp <= ClippedBound(pool_in[i].fm_fp + evt_range[2])}

\* C7: for an event at master frame f and offset range (pre, post) the window
\* is exactly the master rows whose frame counter lies in [f + pre, f + post]
\* clipped to [0, max_frame_index], and fm_evt of each row is its frame
\* counter minus f.
C7_WindowRows ==
    pc = "pooled" =>
        /\ \A i \in EventRows :
              /\ {pooled[k].fm_fp : k \in WindowOf(i)} = {pool_in[j].fm_fp : j \in InRange(i)}
              /\ Cardinality(WindowOf(i)) = Cardinality(InRange(i))
              /\ \A k \in WindowOf(i) :
                    /\ pooled[k].fm_evt = pooled[k].fm_fp - pool_in[i].fm_fp
                    /\ pooled[k].event = pool_in[i].event
        /\ \A k \in DOMAIN pooled : \E i \in EventRows : k \in WindowOf(i)

\* pool_events has cut the window of an event one frame before the last
\* frame with the range (-5, +5): it is clipped at both ends, and fm_evt
\* spans from minus the event's frame to +1.
C7_Witness ==
    /\ pc = "pooled"
    /\ evt_range = <<-5, 5>>
    /\ \E i \in EventRows :
          /\ pool_in[i].fm_fp = MaxFrameIndex - 1
          /\ {pooled[k].fm_evt : k \in WindowOf(i)} = (1 - MaxFrameIndex)..1
          /\ {pooled[k].fm_fp : k \in WindowOf(i)} = 0..MaxFrameIndex

\* The pre-event master rows of the window of the event of row i.
PreRows(i) == {j \in InRange(i) : pool_in[j].fm_fp < pool_in[i].fm_fp}

RECURSIVE SumOver(_, _, _)
SumOver(rows, roi, power) ==
    IF rows = {} THEN 0
    ELSE LET j == CHOOSE x \in rows : TRUE
             v == pool_in[j].val[roi].num
         IN  (IF power = 2 THEN v * v ELSE v) + SumOver(rows \ {j}, roi, power)

\* n * (n - 1) times the sample variance of region roi over the pre-event
\* rows of the window of the event of row i.
PreVariance(i, roi) ==
    Cardinality(PreRows(i)) * SumOver(PreRows(i), roi, 2)
        - SumOver(PreRows(i), roi, 1) * SumOver(PreRows(i), roi, 1)

\* C8: with normalization, for every event window and every region on its
\* own, mean and standard deviation are taken over the pre-event rows
\* (fm_evt < 0) of that window; with std > 0 the whole window of the region
\* is z-scored with them, with std = 0 the region is zero-filled for that
\* window, and nothing is ever divided by zero.
C8_LocalBaseline ==
    (pc = "pooled" /\ pool_arg.norm) =>
        \A i \in EventRows : \A k \in WindowOf(i) :
            LET n == Cardinality(PreRows(i))
                x == pool_in[CHOOSE j \in InRange(i) :
                                pool_in[j].fm_fp = pooled[k].fm_fp].val
            IN  /\ \A roi \in Range(pool_arg.rois) :
                      /\ (n >= 2 /\ PreVariance(i, roi) > 0) =>
                            pooled[k].val[roi] =
                                [k |-> "z", num |-> n * x[roi].num - SumOver(PreRows(i), roi, 1),
                                 n |-> n, var |-> PreVariance(i, roi)]
                      /\ (n >= 2 /\ PreVariance(i, roi) = 0) => pooled[k].val[roi] = ZeroVal
                      /\ pooled[k].val[roi].k = "z" =>
                            pooled[k].val[roi].var > 0 /\ pooled[k].val[roi].n >= 2
                      /\ pooled[k].val[roi].k # "raw"
                /\ \A roi \in Regions \ Range(pool_arg.rois) : pooled[k].val[roi] = x[roi]

\* pool_events has normalized a window in which region G0 is constant before
\* the event and is zero-filled while region R0 is z-scored, and another
\* window in which G0 is z-scored.
C8_Witness ==
    /\ pc = "pooled"
    /\ pool_arg.norm
    /\ \E i \in EventRows : \E k \in WindowOf(i) :
          /\ Cardinality(PreRows(i)) >= 2
          /\ pooled[k].val["G0"] = ZeroVal
          /\ pooled[k].val["R0"].k = "z"
    /\ \E i \in EventRows : \E k \in WindowOf(i) : pooled[k].val["G0"].k = "z"

(***************************************************************************)
(* Photobleach-corrector properties.                                       *)
(***************************************************************************)
\* The entries of the baseline map the existence checks have passed.
CheckedEntries ==
    IF pc = "photobleach_correction" THEN {}
    ELSE IF pc \in {"check", "raised"} THEN {baseline_sig[k] : k \in 1..(pb.i - 1)}
    ELSE Range(baseline_sig)

BaselineAbsent(e) == e.base_roi \notin pb_data.cols \/ ~HasRows(pb_data, e.base_sig)

TargetPresent(e) == e.roi \in pb_data.cols /\ HasRows(pb_data, e.sig)

\* The returned table holds a trace of kind k for region roi under the label.
HasTrace(label, roi, k) ==
    \E i \in DOMAIN data_norm.groups :
        /\ data_norm.groups[i].signal = label
        /\ roi \in DOMAIN data_norm.groups[i].vals
        /\ data_norm.groups[i].vals[roi].k = k

\* C9: photobleach_correction skips, with a warning and without raising,
\* every target whose baseline channel or region is absent from the signal
\* table: no "-norm" or "-norm-zs" values are produced for it, and every
\* other target whose baseline is present is still corrected.
C9_AbsentBaselineSkipped ==
    /\ pb.error = "none"
    /\ \A e \in CheckedEntries :
          BaselineAbsent(e) =>
              /\ e \notin Range(pb.base_dict)
              /\ BaselineWarning(e) \in Range(pb.warnings)
    /\ pc = "returned" =>
          \A e \in Range(baseline_sig) :
              IF BaselineAbsent(e)
              THEN /\ ~HasTrace(e.sig \o "-norm", e.roi, "norm")
                   /\ ~HasTrace(e.sig \o "-norm-zs", e.roi, "norm-zs")
              ELSE TargetPresent(e) =>
                      /\ HasTrace(e.base_sig \o "-fit", e.base_roi, "exp2")
                      /\ HasTrace(e.sig \o "-norm", e.roi, "norm")
                      /\ HasTrace(e.sig \o "-norm-zs", e.roi, "norm-zs")

FailedFits == {k \in DOMAIN pb.fits : ~pb.fits[k].ok}

\* The curve stored for a fitted baseline.
FitCurve(roi, sig) == pb.base_dfs[DictGet(pb.base_dfs, sig)].tab.vals[roi]

\* The trace found in the returned table for region roi under the label.
ReturnedTrace(label, roi) ==
    data_norm.groups[CHOOSE i \in DOMAIN data_norm.groups :
                        data_norm.groups[i].signal = label].vals[roi]

\* C10: a fit result is always present: a failed curve fit warns, raises
\* nothing and leaves the trace of the initial guess (r, -10, r, 0.1,
\* d_min - r), r = d_max - d_min, the medians of the first and the last 50
\* samples; the call goes on, and on return every unit with a baseline has
\* its fitted curve and its corrected traces.
C10_FitFailureFallsBack ==
    /\ \A k \in FailedFits :
          LET a == SignalRows(pb_data, pb.fits[k].sig).vals[pb.fits[k].roi].v
              d_min == Median2(LastSamples(a))
              r == Median2(FirstSamples(a)) - d_min
          IN  FitCurve(pb.fits[k].roi, pb.fits[k].sig)
                  = Trace("exp2", <<>>, <<r, P0_b, r, P0_d, d_min - r>>, Len(a))
    /\ Cardinality(FailedFits)
          = Cardinality({k \in DOMAIN pb.warnings : pb.warnings[k] = FitWarning})
    /\ pb.fits # <<>> =>
          /\ pb.error = "none"
          /\ pc \in {"fit", "correct", "concat_norm", "returned"}
    /\ pc \in {"fit", "correct", "concat_norm"} => ENABLED NextPhoto
    /\ pc = "returned" =>
          \A i \in DOMAIN pb.base_dict :
              LET e == pb.base_dict[i]
              IN  /\ \E k \in DOMAIN pb.fits :
                        pb.fits[k].roi = e.base_roi /\ pb.fits[k].sig = e.base_sig
                  /\ ReturnedTrace(e.base_sig \o "-fit", e.base_roi)
                        = FitCurve(e.base_roi, e.base_sig)
                  /\ FitCurve(e.base_roi, e.base_sig).k = "exp2"
                  /\ ReturnedTrace(e.sig \o "-norm", e.roi).k = "norm"
                  /\ ReturnedTrace(e.sig \o "-norm", e.roi).p
                        = FitCurve(e.base_roi, e.base_sig).p
                  /\ ReturnedTrace(e.sig \o "-norm-zs", e.roi).k = "norm-zs"

\* photobleach_correction has returned after two baselines were fitted, the
\* first fit failed on a trace whose medians differ, the second converged,
\* and both targets are corrected.
C10_Witness ==
    /\ pc = "returned"
    /\ Len(pb.fits) = 2
    /\ ~pb.fits[1].ok
    /\ pb.fits[2].ok
    /\ FitCurve(pb.fits[1].roi, pb.fits[1].sig).p[1] > 0
    /\ Len(pb.base_dict) = 2
    /\ HasTrace("470nm-norm", "G0", "norm")
    /\ HasTrace("470nm-norm", "R0", "norm")

\* The row groups the call has added to the table handed to it.
AddedGroups ==
    {i \in DOMAIN data_norm.groups : i > Len(pb_data.groups)}

\* C11: photobleach_correction leaves the raw values alone: the rows of the
\* table handed in are the first rows of the table returned, cell for cell,
\* the rows after them are "-fit", "-norm" and "-norm-zs" groups, and the
\* same holds, back to the table of the first call, when the corrector is run
\* again on what it returned.
C11_RawRowsUnchanged ==
    pc = "returned" =>
        /\ data_norm.cols = pb_data.cols
        /\ Len(data_norm.groups) >= Len(pb_data.groups)
        /\ SubSeq(data_norm.groups, 1, Len(pb_data.groups)) = pb_data.groups
        /\ SubSeq(data_norm.groups, 1, Len(pb_first.groups)) = pb_first.groups
        /\ \A i \in AddedGroups :
              data_norm.groups[i].signal \in
                  {sig \o suffix : sig \in Signals, suffix \in {"-fit", "-norm", "-norm-zs"}}

\* The corrector has returned from a second call, on the table of a first
\* call that had added groups, and has added groups again.
C11_Witness ==
    /\ pc = "returned"
    /\ Len(pb_data.groups) > Len(pb_first.groups)
    /\ Len(data_norm.groups) > Len(pb_data.groups)
    /\ \E i \in DOMAIN pb_first.groups : pb_first.groups[i].signal = "470nm"

(***************************************************************************)
(* Peak-detector properties.                                               *)
(***************************************************************************)
\* The cells of a column of the returned table on the rows of a signal.
ReturnedCells(sig, col) ==
    [k \in DOMAIN GroupIndex(pk_ret, sig) |->
        pk_ret.rows[GroupIndex(pk_ret, sig)[k]].cell[col]]

SelectedSignals == {sig \in Range(GroupKeys(pk_data)) : sig \in pk_arg.sigs}

\* C12: with a window width find_pks returns a table that carries, for every
\* region, a rolling peak-count column whose cell at each row of a selected
\* channel is the sum of the region's peak indicators over the trailing
\* window, taken within the channel group; the peak-indicator column of every
\* region is there with or without a window width.
C12_RollingCountColumn ==
    (pk_arg.sigs # NoSigs /\ SelectedSignals # {}) =>
        /\ pk.error = "none"
        /\ pc = "returned" =>
              \A i \in DOMAIN pk_arg.rois :
                  /\ PksCol(pk_arg.rois[i]) \in pk_ret.cols
                  /\ pk_arg.freq_wd # 0 =>
                        /\ FreqCol(pk_arg.rois[i]) \in pk_ret.cols
                        /\ \A sig \in SelectedSignals :
                              ReturnedCells(sig, FreqCol(pk_arg.rois[i]))
                                  = RollingSum(ReturnedCells(sig, PksCol(pk_arg.rois[i])),
                                               pk_arg.freq_wd)

(***************************************************************************)
(* Front-end properties.                                                   *)
(***************************************************************************)
\* The step is a call of NPMProcess.load_data.
LoadDataStep ==
    /\ Len(npm_calls') = Len(npm_calls) + 1
    /\ npm_calls'[Len(npm_calls')].op = "load_data"

\* The calls before this step end with set_data, set_roi and
\* set_nfm_discard, the first two with a value.
AfterSetterSequence ==
    /\ Len(npm_calls) >= 3
    /\ npm_calls[Len(npm_calls) - 2].op = "set_data(In0.csv)"
    /\ npm_calls[Len(npm_calls) - 1].op = "set_roi(PARAM_ROIS)"
    /\ npm_calls[Len(npm_calls)].op \in {"set_nfm_discard(None)", "set_nfm_discard(1)"}

\* C13: in every state the setters and callbacks can reach, load_data of the
\* front end fails at once when the data, the region mapping, the
\* light-source mapping or the discard-count is not set, and then leaves the
\* object as it was and writes nothing; after set_data, set_roi and
\* set_nfm_discard, the last with or without a value, it loads.
C13_LoadDataFailsFast ==
    [][LoadDataStep =>
          /\ (\/ npm.data = <<>>
              \/ npm.param_roi_dict = <<>>
              \/ npm.param_led_dict = <<>>
              \/ npm.param_nfm_discard = <<>>)
                => /\ ~npm_calls'[Len(npm_calls')].ok
                   /\ npm' = npm
                   /\ pc' = pc
          /\ AfterSetterSequence
                => /\ npm_calls'[Len(npm_calls')].ok
                   /\ pc' = "loaded"
                   /\ npm'.data = <<"loaded">>
                   /\ "raw_signals.html" \in npm'.written]_vars

\* load_data has failed on an object without region mapping and has loaded
\* after set_roi and set_nfm_discard().
C13_Witness ==
    /\ pc = "loaded"
    /\ npm_calls = <<Call("set_data(In0.csv)", TRUE), Call("load_data", FALSE),
                     Call("set_roi(PARAM_ROIS)", TRUE),
                     Call("set_nfm_discard(None)", TRUE), Call("load_data", TRUE)>>
    /\ npm.written = {"raw_signals.html"}

(***************************************************************************)
(* Frame properties of the stages.                                         *)
(***************************************************************************)
\* C14: every stage (load_data, photobleach_correction, find_pks, align_ts,
\* pool_events) leaves the table handed to it as it was: no step of a stage
\* changes a column or a cell of its input table.  (The corrector's table
\* only changes when its caller hands the returned table to a second call.)
C14_InputTablesUnchanged ==
    [][/\ raw' = raw
       /\ pb_data' # pb_data => pb_data' = data_norm
       /\ pk_data' = pk_data
       /\ master' = master
       /\ pool_in' = pool_in]_vars

(***************************************************************************)
(* Event-alignment properties: ts_alignment.align_ts, lines 64-108.        *)
(***************************************************************************)
\* The sources the event loop has been through, and the master column each
\* is joined on.
SourcesSeen == 1 .. (al.j - 1)

MasterColumn(dat) ==
    IF "fm_fp" \in dat.cols THEN "fm_fp"
    ELSE IF "fm_behav" \in dat.cols THEN "fm_behav"
    ELSE IF "ts_fp" \in dat.cols THEN "ts_fp"
    ELSE "ts"

Resolved(k) == MasterColumn(al.ts_dict[k].tab) \in al.data.cols

\* The event rows that source k has put into evts.
EvtsOf(k) == al.evts[Cardinality({m \in 1 .. k : Resolved(m)})]

\* The event rows are those of the source, each with a frame counter of the
\* master rows that carry its behavior frame, or without one when no master
\* row does.
JoinedThroughBehavior(k) ==
    LET dat == al.ts_dict[k].tab.rows
        data == al.data.rows
        FramesOf(e) == {data[d].fm_fp : d \in {x \in DOMAIN data : data[x].fm_behav = e.fm_behav}}
    IN  /\ \A i \in DOMAIN dat :
              \A f \in (IF FramesOf(dat[i]) = {} THEN {NaN} ELSE FramesOf(dat[i])) :
                  \E r \in DOMAIN EvtsOf(k) : EvtsOf(k)[r] = EventRow(f, dat[i])
        /\ \A r \in DOMAIN EvtsOf(k) :
              \E i \in DOMAIN dat :
                  /\ EvtsOf(k)[r].event = dat[i].event
                  /\ EvtsOf(k)[r].event_type = dat[i].event_type
                  /\ IF FramesOf(dat[i]) = {} THEN EvtsOf(k)[r].fm_fp = NaN
                     ELSE EvtsOf(k)[r].fm_fp \in FramesOf(dat[i])

\* Every event row has the frame counter of a master row whose timestamp in
\* the column key is as near to the event's as any.
JoinedNearest(k, key) ==
    LET dat == al.ts_dict[k].tab.rows
        data == al.data.rows
    IN  /\ Len(EvtsOf(k)) = Len(dat)
        /\ \A i \in DOMAIN dat :
              /\ EvtsOf(k)[i].event = dat[i].event
              /\ EvtsOf(k)[i].event_type = dat[i].event_type
              /\ \E d \in DOMAIN data :
                    /\ EvtsOf(k)[i].fm_fp = data[d].fm_fp
                    /\ \A o \in DOMAIN data :
                          AbsDiff(data[d][key], dat[i][key]) <= AbsDiff(data[o][key], dat[i][key])

\* C15: every remaining event source gets its frame counters by this rule:
\* a source with a frame-counter column is taken as it is; a source with
\* only a behavior-frame column is joined through the behavior-frame to
\* frame-counter mapping of the behavior-timestamp merge and is skipped with
\* a warning when there is no such mapping; a source with only a timestamp
\* is joined to the master row nearest in time on the matching master column
\* and is skipped with a warning only when that column is absent.  A skipped
\* source adds no event rows and the other sources are still aligned.
C15_EventSourcesResolved ==
    /\ [](pc \in {"events", "concat"} =>
            /\ al.error = "none"
            /\ Len(al.evts) = Cardinality({m \in SourcesSeen : Resolved(m)})
            /\ \A k \in SourcesSeen :
                  LET dat == al.ts_dict[k].tab
                      skipped == "cannot align " \o al.ts_dict[k].key \in al.warnings
                  IN  /\ skipped <=> ~Resolved(k)
                      /\ Resolved(k) =>
                            CASE MasterColumn(dat) = "fm_fp" ->
                                    EvtsOf(k) = [i \in DOMAIN dat.rows |->
                                                    EventRow(dat.rows[i].fm_fp, dat.rows[i])]
                              [] MasterColumn(dat) = "fm_behav" -> JoinedThroughBehavior(k)
                              [] OTHER -> JoinedNearest(k, MasterColumn(dat)))
    /\ [][pc = "events" => /\ pc' \in {"events", "concat"}
                            /\ al'.j = al.j + 1]_vars

\* The event loop is through a keydown log that was skipped, the master
\* table having no computer clock, and then through a digital-I/O log whose
\* event at device time 11.2 went to frame 11, the nearer of frames 11
\* (11.0) and 12 (12.0).
C15_Witness ==
    /\ pc = "concat"
    /\ al.j = 3
    /\ "ts" \notin al.data.cols
    /\ al.ts_dict[1].tab.cols = {"event", "ts", "event_type"}
    /\ "cannot align " \o al.ts_dict[1].key \in al.warnings
    /\ al.evts = <<<<[fm_fp |-> 11, event |-> "Input0-1-True", event_type |-> "arduino"]>>>>

\* The event rows that went into the final merge, and the rows of the
\* returned table.
ResolvedEvents == Concat(al.evts)

Returned == al_ret.data.rows

EveryFrameReturned ==
    \A m \in DOMAIN master.rows :
        \E r \in DOMAIN Returned : Returned[r].fm_fp = master.rows[m].FrameCounter

EveryEventReturned ==
    \A e \in DOMAIN ResolvedEvents :
        \E r \in DOMAIN Returned :
            /\ Returned[r].fm_fp = ResolvedEvents[e].fm_fp
            /\ Returned[r].event = ResolvedEvents[e].event
            /\ Returned[r].event_type = ResolvedEvents[e].event_type

\* Two event rows have gone to one frame counter.
SharedFrame ==
    \E i, j \in DOMAIN ResolvedEvents :
        /\ i # j
        /\ ResolvedEvents[i].fm_fp # NaN
        /\ ResolvedEvents[i].fm_fp = ResolvedEvents[j].fm_fp

SharedFrameWarning == "Multiple events mapped to the same FP frame" \in al.warnings

\* Rows with a frame counter come in non-decreasing order, rows without one
\* after them.
FrameOrdered ==
    \A k, l \in DOMAIN Returned :
        k < l => \/ Returned[l].fm_fp = NaN
                 \/ (Returned[k].fm_fp # NaN /\ Returned[k].fm_fp <= Returned[l].fm_fp)

\* C16: when at least one event source is resolved, the returned master
\* table is the outer merge of the master table with all resolved event
\* rows: every master frame counter and every resolved event row is in it,
\* all events are kept when several go to one frame counter and a warning
\* is emitted exactly in that case, and the rows are in non-decreasing
\* frame-counter order.
C16_OuterMergeOfEvents ==
    (pc = "returned" /\ al.evts # <<>>) =>
        /\ EveryFrameReturned
        /\ EveryEventReturned
        /\ SharedFrameWarning <=> SharedFrame
        /\ FrameOrdered

\* The supplied sources that load_ts classifies as event logs.
EventLogs ==
    {i \in DOMAIN ts_files :
        load_ts(ts_files[i].src).ts_type \in {"ts_keydown", "ts_events", "ts_arduino"}}

\* C17: the role of a source in align_ts comes from the shape load_ts gave
\* it and never from the name it was supplied under: only a source
\* classified as behavior-timestamp or frame-timestamp is the canonical
\* clock of merge steps 1 and 2, and an event log supplied under the name
\* "ts_behav" or "ts_fp" is aligned as an event log, is not overwritten by
\* a canonical source and is not taken for one.
C17_RoleByShapeOnly ==
    /\ \A t \in {"ts_behav", "ts_fp"} :
          /\ t \in Range(al.merges) => Classified(t) # {}
          /\ al.error = "ValueError: Multiple " \o t \o " supplied"
                => Cardinality(Classified(t)) >= 2
    /\ al.error \notin {"KeyError: ts", "KeyError: fm_fp"}
    /\ pc = "merge_fp" =>
          \A i \in DOMAIN ts_files :
              \E e \in DOMAIN al.ts_dict : al.ts_dict[e].tab = load_ts(ts_files[i].src)
    /\ pc \in {"events", "concat"} =>
          \A i \in EventLogs :
              \E e \in DOMAIN al.ts_dict :
                  /\ al.ts_dict[e].key = ts_files[i].name
                  /\ al.ts_dict[e].tab = load_ts(ts_files[i].src)

(***************************************************************************)
(* Event pooler: windows with a short pre-event portion.                   *)
(***************************************************************************)
\* C18: in pool_events with normalization, whenever the pre-event portion
\* (fm_evt < 0) of a window has fewer than two rows, as for an event at the
\* first frame or for pre >= 0, every listed region of that window is
\* zero-filled, without warning or error, just as for std = 0; no window
\* ever holds a value got by dividing by a zero or undefined standard
\* deviation.
C18_ShortBaselineZeroFilled ==
    /\ pc = "raised" => EventRows = {}
    /\ (pc = "pooled" /\ pool_arg.norm) =>
          \A i \in EventRows :
              /\ WindowOf(i) # {}
              /\ \A k \in WindowOf(i) : \A roi \in Range(pool_arg.rois) :
                    /\ Cardinality(PreRows(i)) < 2 => pooled[k].val[roi] = ZeroVal
                    /\ pooled[k].val[roi].k = "z" =>
                          /\ Cardinality(PreRows(i)) >= 2
                          /\ pooled[k].val[roi].n = Cardinality(PreRows(i))
                          /\ pooled[k].val[roi].var = PreVariance(i, roi)
                          /\ pooled[k].val[roi].var > 0

\* pool_events has normalized the window of an event at the first frame,
\* which has no pre-event row, and that of an event at the second frame,
\* which has one: both are zero-filled in both regions although region G0
\* is 1 at these frames; a later event of the same call is z-scored.
C18_Witness ==
    /\ pc = "pooled"
    /\ pool_arg = [rois |-> <<"G0", "R0">>, norm |-> TRUE]
    /\ evt_range = <<-2, 1>>
    /\ \E i, j, l \in EventRows :
          /\ pool_in[i].fm_fp = 0 /\ PreRows(i) = {}
          /\ pool_in[j].fm_fp = 1 /\ Cardinality(PreRows(j)) = 1
          /\ pool_in[i].val["G0"].num = 1 /\ pool_in[j].val["G0"].num = 1
          /\ \A k \in WindowOf(i) \cup WindowOf(j) :
                pooled[k].val["G0"] = ZeroVal /\ pooled[k].val["R0"] = ZeroVal
          /\ \E k \in WindowOf(l) : pooled[k].val["R0"].k = "z"

(***************************************************************************)
(* Peak detector: the channel filter.                                      *)
(***************************************************************************)
\* The cell is a peak indicator.
IsIndicator(cell) == cell \in {"True", "False"}

\* C19: without a channel filter (sigs is None) find_pks searches no
\* channel: it returns the table without a peak-indicator or rolling-count
\* column and with every row as it was; a peak indicator is only ever
\* written on a row whose signal is in the channel filter.
C19_NoFilterNoSearch ==
    /\ [](pk_arg.sigs = NoSigs =>
            /\ pk.error = "none"
            /\ pc # "raised"
            /\ pc = "returned" =>
                  /\ pk_ret = pk_data
                  /\ pk_ret.cols = {}
                  /\ \A i \in DOMAIN pk_ret.rows : \A c \in PkCols :
                        pk_ret.rows[i].cell[c] = "")
    /\ [][pk_arg.sigs = NoSigs => pk_data' = pk_data]_vars
    /\ [](\A i \in DOMAIN pk_data.rows : \A c \in PkCols :
             IsIndicator(pk_data.rows[i].cell[c]) =>
                 /\ pk_arg.sigs # NoSigs
                 /\ pk_data.rows[i].signal \in pk_arg.sigs
                 /\ \E r \in DOMAIN pk_arg.rois : c = PksCol(pk_arg.rois[r]))

\* find_pks has returned from a call with a window width and without a
\* channel filter on a table whose 470nm rows have a peak of region R0 that
\* a search would have found: the table has no new column.
C19_Witness ==
    /\ pc = "returned"
    /\ pk_arg.sigs = NoSigs
    /\ pk_arg.freq_wd = 2
    /\ pk_ret.cols = {}
    /\ pk_ret.rows = pk_data.rows
    /\ LET idx == GroupIndex(pk_data, "470nm")
       IN  find_peaks([k \in DOMAIN idx |-> pk_data.rows[idx[k]].val["R0"]],
                      pk_arg.prominence) # {}

====
